---- MODULE Spec2Model ----
(***************************************************************************)
(* Inference orchestration and narrative synthesis of the agri-assist      *)
(* backend: the label parser, the severity classifier, the speech-to-text  *)
(* cascade (transcribe) and the per-image orchestrator (diagnose, chat).   *)
(*                                                                         *)
(* Strings are sequences of one-character strings, so that toLowerCase,    *)
(* includes, split, replace and trim are computed and not assumed.         *)
(* Scores (floats in [0,1] in the source) are integers in thousandths:     *)
(* 0.4 is 400, 0.7 is 700, 0.82 is 820.                                    *)
(***************************************************************************)
EXTENDS Integers, Sequences, FiniteSets, TLC

VARIABLES
    f_pc, f_in, f_out,                                  \* pure functions
    t_pc, t_req, t_calls, t_text, t_sent, t_cleaned,    \* transcribe
    o_pc, o_req, o_task, o_done, o_calls, o_diag, o_reply, o_images, o_sent, o_cleaned,
                                                        \* diagnose / chat
    n_pc, n_in, n_diag, n_out,                          \* narrative of a batch
    s_store, s_reqs                                     \* sessions

fvars == <<f_pc, f_in, f_out>>
tvars == <<t_pc, t_req, t_calls, t_text, t_sent, t_cleaned>>
ovars == <<o_pc, o_req, o_task, o_done, o_calls, o_diag, o_reply, o_images, o_sent, o_cleaned>>
nvars == <<n_pc, n_in, n_diag, n_out>>
svars == <<s_store, s_reqs>>
vars  == <<fvars, tvars, ovars, nvars, svars>>

(***************************************************************************)
(* Bounds of the model.                                                    *)
(***************************************************************************)
MaxChunks == 2      \* a pure-function input string is at most this many chunks
MaxFiles  == 2      \* images per request explored
MaxRequests == 2    \* session requests in progress at a time

(***************************************************************************)
(* Strings.                                                                *)
(***************************************************************************)
S_healthy   == <<"h","e","a","l","t","h","y">>
S_HEALTHY   == <<"H","E","A","L","T","H","Y">>
S_Healthy   == <<"H","e","a","l","t","h","y">>
S_healt     == <<"h","e","a","l","t">>
S_hy        == <<"h","y">>
S_us        == <<"_">>
S_sep       == <<"_","_","_">>
S_sp        == <<" ">>
S_Tomato    == <<"T","o","m","a","t","o">>
S_Bacterial == <<"B","a","c","t","e","r","i","a","l">>
S_spot      == <<"s","p","o","t">>
S_Early     == <<"E","a","r","l","y">>
S_blight    == <<"b","l","i","g","h","t">>
S_Corn      == <<"C","o","r","n">>
S_unknown   == <<"u","n","k","n","o","w","n"," ","c","o","n","d","i","t","i","o","n">>
S_null      == <<"n","u","l","l">>
S_empty     == <<>>

UpperLetters == <<"A","B","C","D","E","F","G","H","I","J","K","L","M","N","O","P","Q","R","S","T","U","V","W","X","Y","Z">>
LowerLetters == <<"a","b","c","d","e","f","g","h","i","j","k","l","m","n","o","p","q","r","s","t","u","v","w","x","y","z">>

\* String.prototype.toLowerCase of one character
LowerChar(c) ==
    IF \E i \in 1..Len(UpperLetters) : UpperLetters[i] = c
    THEN LowerLetters[CHOOSE i \in 1..Len(UpperLetters) : UpperLetters[i] = c]
    ELSE c

ToLowerCase(s) == [i \in 1..Len(s) |-> LowerChar(s[i])]

\* pat occurs in s starting at position i
MatchAt(s, pat, i) ==
    /\ i >= 1
    /\ i + Len(pat) - 1 <= Len(s)
    /\ \A k \in 1..Len(pat) : s[i + k - 1] = pat[k]

\* String.prototype.includes
Includes(s, pat) == \E i \in 1..(Len(s) + 1) : MatchAt(s, pat, i)

\* first position at which pat occurs in s, 0 if none
IndexOf(s, pat) ==
    IF Includes(s, pat)
    THEN CHOOSE i \in 1..(Len(s) + 1) :
            MatchAt(s, pat, i) /\ \A j \in 1..(i - 1) : ~MatchAt(s, pat, j)
    ELSE 0

\* String.prototype.split(sep), sep non-empty: leftmost non-overlapping matches
RECURSIVE Split(_, _)
Split(s, sep) ==
    LET i == IndexOf(s, sep) IN
    IF i = 0 THEN <<s>>
    ELSE <<SubSeq(s, 1, i - 1)>> \o Split(SubSeq(s, i + Len(sep), Len(s)), sep)

\* Array.prototype.join(sep)
RECURSIVE Join(_, _)
Join(parts, sep) ==
    IF Len(parts) = 0 THEN <<>>
    ELSE IF Len(parts) = 1 THEN parts[1]
    ELSE parts[1] \o sep \o Join(Tail(parts), sep)

\* String.prototype.replace(/_/g, ' ')
ReplaceUnderscores(s) == [i \in 1..Len(s) |-> IF s[i] = "_" THEN " " ELSE s[i]]

\* String.prototype.trim (the only white space of the model is the blank)
RECURSIVE TrimLeft(_)
TrimLeft(s) == IF Len(s) > 0 /\ s[1] = " " THEN TrimLeft(Tail(s)) ELSE s

RECURSIVE TrimRight(_)
TrimRight(s) ==
    IF Len(s) > 0 /\ s[Len(s)] = " " THEN TrimRight(SubSeq(s, 1, Len(s) - 1)) ELSE s

Trim(s) == TrimRight(TrimLeft(s))

\* string | null: <<>> is null, <<s>> is the string s
Null      == <<>>
Some(s)   == <<s>>
IsNull(n) == n = <<>>
\* a template literal's `${n}`: null is rendered as the text "null"
Interp(n) == IF IsNull(n) THEN S_null ELSE n[1]

(***************************************************************************)
(* Label parser and severity classifier (huggingface.service.ts).          *)
(***************************************************************************)
parseLabel_ReplaceFirst(raw) ==
    LET spaced == ReplaceUnderscores(raw)
        parts  == Split(spaced, S_sep)
    IN IF Len(parts) >= 2
       THEN [plant     |-> Trim(parts[1]),
             condition |-> Trim(Join(Tail(parts), S_sp))]
       ELSE [plant     |-> Trim(spaced),
             condition |-> S_unknown]

parseLabel_RejoinsRaw(raw) ==
    LET parts == Split(raw, S_sep) IN
    IF Len(parts) >= 2
    THEN [plant     |-> Trim(ReplaceUnderscores(parts[1])),
          condition |-> Trim(Join(Tail(parts), S_sep))]
    ELSE [plant     |-> Trim(ReplaceUnderscores(raw)),
          condition |-> S_unknown]

parseLabel(raw) ==
    LET parts == Split(raw, S_sep) IN
    IF Len(parts) >= 2
    THEN [plant     |-> Trim(ReplaceUnderscores(parts[1])),
          condition |-> Trim(ReplaceUnderscores(Join(Tail(parts), S_sp)))]
    ELSE [plant     |-> Trim(ReplaceUnderscores(raw)),
          condition |-> S_unknown]

mapSeverity_CaseSensitive(condition, confidence) ==
    IF Includes(condition, S_healthy) THEN "healthy"
    ELSE IF confidence < 400 THEN "mild"
    ELSE IF confidence < 700 THEN "moderate"
    ELSE "severe"

mapSeverity_Inclusive(condition, confidence) ==
    IF Includes(ToLowerCase(condition), S_healthy) THEN "healthy"
    ELSE IF confidence <= 400 THEN "mild"
    ELSE IF confidence <= 700 THEN "moderate"
    ELSE "severe"

mapSeverity(condition, confidence) ==
    IF Includes(ToLowerCase(condition), S_healthy) THEN "healthy"
    ELSE IF confidence < 400 THEN "mild"
    ELSE IF confidence < 700 THEN "moderate"
    ELSE "severe"

(***************************************************************************)
(* Plant disease classification (huggingface.service.ts).                  *)
(* A remote answer is [status, body]: body is the JSON array of            *)
(* {label, score}; status 0 stands for fetch itself rejecting.             *)
(***************************************************************************)
Result(label, score) == [label |-> label, score |-> score]

\* [...results].sort((a, b) => b.score - a.score): stable, descending
RECURSIVE InsertDesc(_, _)
InsertDesc(sorted, x) ==
    IF Len(sorted) = 0 THEN <<x>>
    ELSE IF sorted[1].score >= x.score
         THEN <<sorted[1]>> \o InsertDesc(Tail(sorted), x)
         ELSE <<x>> \o sorted

RECURSIVE SortByScoreDesc(_)
SortByScoreDesc(results) ==
    IF Len(results) = 0 THEN <<>>
    ELSE InsertDesc(SortByScoreDesc(SubSeq(results, 1, Len(results) - 1)),
                    results[Len(results)])

\* parts of a template literal
Lit(text) == <<"lit", text>>
Str(s)    == <<"str", s>>
Num(n)    == <<"num", n>>
\* (score * 100).toFixed(1) of a score given in thousandths
Pct(p)    == <<"pct", p \div 10, p % 10>>

Ok(v)      == [ok |-> TRUE, value |-> v]
Throw(msg) == [ok |-> FALSE, message |-> msg]

\* line 98
sortResults_AsReceived(results) == results

sortResults(results) == SortByScoreDesc(results)

\* the part of classifyPlantDisease after a non-empty result list was received
DiagnosisOf(results) ==
    LET sorted    == sortResults(results)
        top       == sorted[1]
        parsed    == parseLabel(top.label)
        isHealthy == Includes(ToLowerCase(parsed.condition), S_healthy)
    IN [rawResults    |-> sorted,
        topPrediction |-> top.label,
        confidence    |-> top.score,
        isHealthy     |-> isHealthy,
        diseaseName   |-> IF isHealthy THEN Null ELSE Some(parsed.condition),
        plantName     |-> Some(parsed.plant),
        severity      |-> mapSeverity(parsed.condition, top.score),
        humanReadable |->
            IF isHealthy
            THEN <<Lit("The "), Str(parsed.plant), Lit(" plant appears healthy ("),
                   Pct(top.score), Lit("% confidence).")>>
            ELSE <<Lit("Detected "), Str(parsed.condition), Lit(" on "),
                   Str(parsed.plant), Lit(" with "), Pct(top.score),
                   Lit("% confidence.")>>]

\* classifyPlantDisease from the remote answer on (lines 83-119)
classifyResponse(resp) ==
    IF resp.status = 0 THEN Throw("fetch failed")
    ELSE IF resp.status = 503
    THEN Throw("Plant disease model is loading. Please try again in 20 seconds.")
    ELSE IF resp.status # 200 THEN Throw("HF classification error")
    ELSE IF Len(resp.body) = 0
    THEN Throw("HuggingFace returned empty classification results")
    ELSE Ok(DiagnosisOf(resp.body))

(***************************************************************************)
(* Treatment advice (huggingface.service.ts, getTreatmentAdvice).          *)
(* The texts are the source's, with its dashes written in ASCII.           *)
(***************************************************************************)
P_blight == <<"b","l","i","g","h","t">>
P_rust == <<"r","u","s","t">>
P_mildew == <<"m","i","l","d","e","w">>
P_bacterial_spot == <<"b","a","c","t","e","r","i","a","l"," ","s","p","o","t">>
P_bacterial == <<"b","a","c","t","e","r","i","a","l">>
P_leaf_spot == <<"l","e","a","f"," ","s","p","o","t">>
P_cercospora == <<"c","e","r","c","o","s","p","o","r","a">>
P_septoria == <<"s","e","p","t","o","r","i","a">>
P_mosaic == <<"m","o","s","a","i","c">>
P_virus == <<"v","i","r","u","s">>
P_curl == <<"c","u","r","l">>
P_scab == <<"s","c","a","b">>
P_rot == <<"r","o","t">>
P_anthracnose == <<"a","n","t","h","r","a","c","n","o","s","e">>

Advice_blight ==
    <<"Remove and destroy affected plant parts immediately.",
      "Apply copper-based fungicide (e.g., Bordeaux mixture) every 7-10 days.",
      "Improve air circulation between plants by pruning.",
      "Avoid overhead watering - use drip irrigation if possible.",
      "Rotate crops next season to break the disease cycle.">>
Advice_rust ==
    <<"Apply sulfur-based or triazole fungicide at first sign.",
      "Remove heavily infected leaves and dispose away from the field.",
      "Avoid wetting foliage; water at the base.",
      "Plant rust-resistant varieties in future seasons.">>
Advice_mildew ==
    <<"Apply potassium bicarbonate or neem oil spray weekly.",
      "Improve airflow by thinning out dense foliage.",
      "Avoid high-nitrogen fertilisers which promote susceptible growth.",
      "Water in the morning so foliage dries quickly.">>
Advice_bacterial ==
    <<"Apply copper-based bactericide (copper hydroxide or copper oxychloride).",
      "Remove and destroy heavily infected leaves immediately.",
      "Avoid working with plants when foliage is wet to prevent spread.",
      "Ensure good air circulation - avoid dense planting.",
      "Use disease-free certified seeds for next season.",
      "Avoid overhead irrigation; use drip irrigation instead.">>
Advice_leafSpot ==
    <<"Apply chlorothalonil or mancozeb fungicide every 7 days.",
      "Remove infected leaves and avoid overhead irrigation.",
      "Ensure adequate plant spacing for air circulation.",
      "Mulch around the base to prevent soil splash onto leaves.">>
Advice_viral ==
    <<"No chemical cure - remove and destroy infected plants immediately.",
      "Control aphid and whitefly vectors with insecticidal soap.",
      "Use reflective mulches to deter virus-transmitting insects.",
      "Sanitise tools between plants to prevent mechanical spread.">>
Advice_scab ==
    <<"Apply captan or dodine fungicide preventively.",
      "Prune to open the canopy for better air circulation.",
      "Rake up and destroy fallen leaves which harbour spores.",
      "Choose scab-resistant cultivars for future planting.">>
Advice_rot ==
    <<"Improve soil drainage to reduce excess moisture.",
      "Apply appropriate fungicide (e.g., metalaxyl for root rot).",
      "Remove and destroy severely affected plants.",
      "Avoid over-irrigation and ensure proper spacing.">>
Advice_anthracnose ==
    <<"Apply mancozeb or azoxystrobin fungicide.",
      "Remove infected fruit and plant debris promptly.",
      "Avoid wetting foliage; water at the base early in the morning.",
      "Ensure proper plant spacing for good air circulation.">>
Advice_generic ==
    <<"Isolate affected plants to prevent spread.",
      "Consult your local agricultural extension office with a sample.",
      "Consider a broad-spectrum fungicide as a precaution.",
      "Monitor remaining plants closely for spread of symptoms.",
      "Document symptoms and progression for agronomist review.">>

getTreatmentAdvice_CaseSensitive(disease) ==
    LET d == disease IN
    IF Includes(d, P_blight) THEN Advice_blight
    ELSE IF Includes(d, P_rust) THEN Advice_rust
    ELSE IF Includes(d, P_mildew) THEN Advice_mildew
    ELSE IF Includes(d, P_bacterial_spot) \/ Includes(d, P_bacterial) THEN Advice_bacterial
    ELSE IF Includes(d, P_leaf_spot) \/ Includes(d, P_cercospora) \/ Includes(d, P_septoria)
         THEN Advice_leafSpot
    ELSE IF Includes(d, P_mosaic) \/ Includes(d, P_virus) \/ Includes(d, P_curl)
         THEN Advice_viral
    ELSE IF Includes(d, P_scab) THEN Advice_scab
    ELSE IF Includes(d, P_rot) THEN Advice_rot
    ELSE IF Includes(d, P_anthracnose) THEN Advice_anthracnose
    ELSE Advice_generic

getTreatmentAdvice_RustFirst(disease) ==
    LET d == ToLowerCase(disease) IN
    IF Includes(d, P_rust) THEN Advice_rust
    ELSE IF Includes(d, P_blight) THEN Advice_blight
    ELSE IF Includes(d, P_mildew) THEN Advice_mildew
    ELSE IF Includes(d, P_bacterial_spot) \/ Includes(d, P_bacterial) THEN Advice_bacterial
    ELSE IF Includes(d, P_leaf_spot) \/ Includes(d, P_cercospora) \/ Includes(d, P_septoria)
         THEN Advice_leafSpot
    ELSE IF Includes(d, P_mosaic) \/ Includes(d, P_virus) \/ Includes(d, P_curl)
         THEN Advice_viral
    ELSE IF Includes(d, P_scab) THEN Advice_scab
    ELSE IF Includes(d, P_rot) THEN Advice_rot
    ELSE IF Includes(d, P_anthracnose) THEN Advice_anthracnose
    ELSE Advice_generic

getTreatmentAdvice(disease) ==
    LET d == ToLowerCase(disease) IN
    IF Includes(d, P_blight) THEN Advice_blight
    ELSE IF Includes(d, P_rust) THEN Advice_rust
    ELSE IF Includes(d, P_mildew) THEN Advice_mildew
    ELSE IF Includes(d, P_bacterial_spot) \/ Includes(d, P_bacterial) THEN Advice_bacterial
    ELSE IF Includes(d, P_leaf_spot) \/ Includes(d, P_cercospora) \/ Includes(d, P_septoria)
         THEN Advice_leafSpot
    ELSE IF Includes(d, P_mosaic) \/ Includes(d, P_virus) \/ Includes(d, P_curl)
         THEN Advice_viral
    ELSE IF Includes(d, P_scab) THEN Advice_scab
    ELSE IF Includes(d, P_rot) THEN Advice_rot
    ELSE IF Includes(d, P_anthracnose) THEN Advice_anthracnose
    ELSE Advice_generic

(***************************************************************************)
(* Narrative builder (huggingface.service.ts, buildDiagnosisNarrative).    *)
(* A narrative is the sequence `lines` before lines.join: each line is the *)
(* sequence of the parts of its template literal; '' is the empty line.    *)
(* The emoji of the source are written as words.                           *)
(***************************************************************************)
RECURSIVE Flatten(_)
Flatten(seqs) == IF Len(seqs) = 0 THEN <<>> ELSE seqs[1] \o Flatten(Tail(seqs))

Min(a, b) == IF a < b THEN a ELSE b

ApologyLine == <<Lit("I wasn't able to analyse any images. Please try uploading clearer crop photos.")>>
TitleLine == <<Lit("## Crop Health Analysis\n")>>
HealthyBanner == Lit("(check) **Healthy Plant Detected**")
AdvisoryHeaderLine == <<Lit("---\n## Recommended Actions\n")>>
DisclaimerLine ==
    <<Lit("> (warning) *These recommendations are AI-generated. Please consult a local agronomist before applying treatments.*")>>
EmptyLine == <<>>

severityEmoji(severity) ==
    CASE severity = "mild" -> "(yellow)"
      [] severity = "moderate" -> "(orange)"
      [] severity = "severe" -> "(red)"
      [] severity = "healthy" -> "(green)"

\* d.severity.charAt(0).toUpperCase() + d.severity.slice(1)
Capitalized(severity) ==
    CASE severity = "mild" -> "Mild"
      [] severity = "moderate" -> "Moderate"
      [] severity = "severe" -> "Severe"
      [] severity = "healthy" -> "Healthy"

ImageLabel_ZeroBased(i, n) ==
    IF n > 1 THEN <<Lit("**Image "), Num(i - 1), Lit(":** ")>> ELSE <<>>

\* `**Image ${i + 1}:** ` when several diagnoses are present, '' otherwise
ImageLabel(i, n) ==
    IF n > 1 THEN <<Lit("**Image "), Num(i), Lit(":** ")>> ELSE <<>>

\* one alternate, "name (confidence%)"
AlternateParts(a) ==
    LET parsed == parseLabel(a.label)
        name   == IF parsed.condition = S_unknown THEN parsed.plant
                  ELSE parsed.plant \o <<" ", "-", " ">> \o parsed.condition
    IN <<Str(name), Lit(" ("), Pct(a.score), Lit("%)")>>

Alternates_FromTop(d) == SubSeq(d.rawResults, 1, Min(3, Len(d.rawResults)))

\* d.rawResults.slice(1, 4)
Alternates(d) == SubSeq(d.rawResults, 2, Min(4, Len(d.rawResults)))

RECURSIVE JoinAlternates(_)
JoinAlternates(alts) ==
    IF Len(alts) = 0 THEN <<>>
    ELSE IF Len(alts) = 1 THEN AlternateParts(alts[1])
    ELSE AlternateParts(alts[1]) \o <<Lit(", ")>> \o JoinAlternates(Tail(alts))

\* the lines pushed for diagnosis d at 1-based position i of n (lines 135-162)
SectionLines(d, i, n) ==
    LET head ==
            IF d.isHealthy
            THEN << ImageLabel(i, n) \o <<HealthyBanner>>,
                    <<Lit("Your **"), Str(Interp(d.plantName)),
                      Lit("** looks healthy with **"), Pct(d.confidence),
                      Lit("%** confidence. No disease signs found.")>> >>
            ELSE << ImageLabel(i, n) \o <<Lit(severityEmoji(d.severity)), Lit(" **"),
                                          Str(Interp(d.diseaseName)), Lit("**")>>,
                    <<Lit("- **Plant:** "), Str(Interp(d.plantName))>>,
                    <<Lit("- **Condition:** "), Str(Interp(d.diseaseName))>>,
                    <<Lit("- **Confidence:** "), Pct(d.confidence), Lit("%")>>,
                    <<Lit("- **Severity:** "), Lit(Capitalized(d.severity))>> >>
        alts == Alternates(d)
        altLine ==
            IF Len(alts) > 0
            THEN << <<Lit("\n*Other possibilities:* ")>> \o JoinAlternates(alts) >>
            ELSE <<>>
    IN head \o altLine \o <<EmptyLine>>

\* the lines pushed for one diseased diagnosis in the treatment section (168-173)
TreatmentLines(d) ==
    LET advice == getTreatmentAdvice(IF IsNull(d.diseaseName) THEN S_empty
                                     ELSE d.diseaseName[1])
    IN << <<Lit("**For "), Str(Interp(d.diseaseName)), Lit(" on "),
            Str(Interp(d.plantName)), Lit(":**")>> >>
       \o [k \in 1..Len(advice) |-> <<Lit("* "), Lit(advice[k])>>]
       \o <<EmptyLine>>

ClosingLine_Trimmed(userMessage) ==
    <<Lit("\n---\n*Regarding your query: \""), Str(Trim(userMessage)),
      Lit("\" - the analysis above addresses the visual symptoms in your uploaded images.*")>>

ClosingLine(userMessage) ==
    <<Lit("\n---\n*Regarding your query: \""), Str(userMessage),
      Lit("\" - the analysis above addresses the visual symptoms in your uploaded images.*")>>

buildDiagnosisNarrative_DisclaimerAlways(diagnoses, userMessage) ==
    IF Len(diagnoses) = 0 THEN <<ApologyLine>>
    ELSE
      LET n        == Len(diagnoses)
          sections == Flatten([i \in 1..n |-> SectionLines(diagnoses[i], i, n)])
          diseased == SelectSeq(diagnoses, LAMBDA d : ~d.isHealthy)
          advisory ==
              IF Len(diseased) > 0
              THEN <<AdvisoryHeaderLine>>
                   \o Flatten([k \in 1..Len(diseased) |-> TreatmentLines(diseased[k])])
              ELSE <<>>
          closing  ==
              IF Len(Trim(userMessage)) > 0 THEN <<ClosingLine(userMessage)>> ELSE <<>>
      IN <<TitleLine>> \o sections \o advisory \o <<DisclaimerLine>> \o closing

buildDiagnosisNarrative_NamedOnly(diagnoses, userMessage) ==
    IF Len(diagnoses) = 0 THEN <<ApologyLine>>
    ELSE
      LET n        == Len(diagnoses)
          sections == Flatten([i \in 1..n |-> SectionLines(diagnoses[i], i, n)])
          diseased == SelectSeq(diagnoses, LAMBDA d : ~d.isHealthy /\ ~IsNull(d.diseaseName))
          advisory ==
              IF Len(diseased) > 0
              THEN <<AdvisoryHeaderLine>>
                   \o Flatten([k \in 1..Len(diseased) |-> TreatmentLines(diseased[k])])
                   \o <<DisclaimerLine>>
              ELSE <<>>
          closing  ==
              IF Len(Trim(userMessage)) > 0 THEN <<ClosingLine(userMessage)>> ELSE <<>>
      IN <<TitleLine>> \o sections \o advisory \o closing

buildDiagnosisNarrative_AdvisesAll(diagnoses, userMessage) ==
    IF Len(diagnoses) = 0 THEN <<ApologyLine>>
    ELSE
      LET n        == Len(diagnoses)
          sections == Flatten([i \in 1..n |-> SectionLines(diagnoses[i], i, n)])
          diseased == diagnoses
          advisory ==
              IF Len(diseased) > 0
              THEN <<AdvisoryHeaderLine>>
                   \o Flatten([k \in 1..Len(diseased) |-> TreatmentLines(diseased[k])])
                   \o <<DisclaimerLine>>
              ELSE <<>>
          closing  ==
              IF Len(Trim(userMessage)) > 0 THEN <<ClosingLine(userMessage)>> ELSE <<>>
      IN <<TitleLine>> \o sections \o advisory \o closing

buildDiagnosisNarrative(diagnoses, userMessage) ==
    IF Len(diagnoses) = 0 THEN <<ApologyLine>>
    ELSE
      LET n        == Len(diagnoses)
          sections == Flatten([i \in 1..n |-> SectionLines(diagnoses[i], i, n)])
          diseased == SelectSeq(diagnoses, LAMBDA d : ~d.isHealthy)
          advisory ==
              IF Len(diseased) > 0
              THEN <<AdvisoryHeaderLine>>
                   \o Flatten([k \in 1..Len(diseased) |-> TreatmentLines(diseased[k])])
                   \o <<DisclaimerLine>>
              ELSE <<>>
          closing  ==
              IF Len(Trim(userMessage)) > 0 THEN <<ClosingLine(userMessage)>> ELSE <<>>
      IN <<TitleLine>> \o sections \o advisory \o closing

(***************************************************************************)
(* Pure functions applied to inputs drawn from bounded sets.               *)
(***************************************************************************)
Chunks ==
    {S_healthy, S_HEALTHY, S_Healthy, S_healt, S_hy, S_us, S_sep, S_sp,
     S_Tomato, S_Bacterial, S_spot, S_blight}

RECURSIVE ChunkStrings(_)
ChunkStrings(n) ==
    IF n = 0 THEN {<<>>}
    ELSE LET shorter == ChunkStrings(n - 1)
         IN shorter \cup {s \o c : s \in shorter, c \in Chunks}

FnStrings == ChunkStrings(MaxChunks)

\* condition texts: disease names in several letter cases, pieces of names,
\* and names no rule knows
ConditionChunks ==
    {<<"B","l","i","g","h","t">>, <<"B","L","I","G","H","T">>, <<"R","u","s","t">>,
     <<"m","i","l","d","e","w">>, <<"B","a","c","t","e","r","i","a","l">>,
     <<" ","s","p","o","t">>, <<"L","e","a","f">>,
     <<"C","e","r","c","o","s","p","o","r","a">>, <<"S","E","P","T","O","R","I","A">>,
     <<"M","o","s","a","i","c">>, <<"v","i","r","u","s">>, <<"C","u","r","l">>,
     <<"S","c","a","b">>, <<"r","o">>, <<"t">>,
     <<"A","n","t","h","r","a","c","n","o","s","e">>, <<"W","i","l","t">>, <<" ">>}

RECURSIVE ConditionStrings(_)
ConditionStrings(n) ==
    IF n = 0 THEN {<<>>}
    ELSE LET shorter == ConditionStrings(n - 1)
         IN shorter \cup {s \o c : s \in shorter, c \in ConditionChunks}

FnConditions == ConditionStrings(MaxChunks)

\* scores in thousandths, around the thresholds of mapSeverity
Scores == {0, 399, 400, 401, 699, 700, 701, 820, 990, 1000}

IdleTranscribeReq == [file |-> FALSE, mimetype |-> "", token |-> <<>>]
IdleOrchReq == [handler |-> "diagnose", files |-> <<>>, message |-> <<>>, token |-> <<>>]
NoReply   == [kind |-> "none"]
SessionIds == {"s1"}
NoSessions == [sid \in SessionIds |-> <<>>]
IdleNarrativeIn == [answers |-> <<>>, userMessage |-> <<>>]
FnIdleIn  == [label |-> <<>>, score |-> 0]
FnNoOut   == [fn |-> "none"]

InitFn ==
    /\ f_pc = "input"
    /\ f_in \in [label : FnStrings, score : Scores]
               \cup [label : FnConditions, score : {820}]
    /\ f_out = FnNoOut
    /\ t_pc = "idle"
    /\ t_req = IdleTranscribeReq
    /\ t_calls = <<>>
    /\ t_text = Null
    /\ t_sent = <<>>
    /\ t_cleaned = 0
    /\ o_pc = "idle"
    /\ o_req = IdleOrchReq
    /\ o_task = <<>>
    /\ o_done = <<>>
    /\ o_calls = <<>>
    /\ o_diag = <<>>
    /\ o_reply = NoReply
    /\ o_images = <<>>
    /\ o_sent = <<>>
    /\ o_cleaned = <<>>
    /\ n_pc = "idle"
    /\ n_in = IdleNarrativeIn
    /\ n_diag = <<>>
    /\ n_out = <<>>
    /\ s_store = NoSessions
    /\ s_reqs = <<>>

F_mapSeverity ==
    /\ f_pc = "input"
    /\ f_pc' = "applied"
    /\ f_out' = [fn |-> "mapSeverity", value |-> mapSeverity(f_in.label, f_in.score)]
    /\ UNCHANGED <<f_in, tvars, ovars, nvars, svars>>

F_parseLabel ==
    /\ f_pc = "input"
    /\ f_pc' = "applied"
    /\ f_out' = [fn |-> "parseLabel", value |-> parseLabel(f_in.label)]
    /\ UNCHANGED <<f_in, tvars, ovars, nvars, svars>>

F_getTreatmentAdvice ==
    /\ f_pc = "input"
    /\ f_pc' = "applied"
    /\ f_out' = [fn |-> "getTreatmentAdvice", value |-> getTreatmentAdvice(f_in.label)]
    /\ UNCHANGED <<f_in, tvars, ovars, nvars, svars>>

NextFn == F_mapSeverity \/ F_parseLabel \/ F_getTreatmentAdvice

(***************************************************************************)
(* Speech to text (transcribe.controller.ts).                              *)
(* A remote answer is [status, error, text]: status 0 stands for fetch     *)
(* itself rejecting; error and text are the optional fields of the JSON    *)
(* body of a 200 answer.                                                   *)
(***************************************************************************)
PRIMARY_MODEL == "ihanif/whisper-medium-urdu"

FALLBACK_MODEL_SameAsPrimary == "ihanif/whisper-medium-urdu"

FALLBACK_MODEL == "openai/whisper-large-v3"

Transcripts == {<<>>, <<" ">>, <<"a">>, <<" ", "a", "b", " ">>}

WhisperResponses ==
    [status : {0, 503, 500, 401}, error : {Null}, text : {Null}]
    \cup [status : {200},
          error  : {Null, Some(<<>>), Some(<<"e">>)},
          text   : {Null} \cup {Some(t) : t \in Transcripts}]

callWhisper(resp) ==
    IF resp.status = 0 THEN Throw("fetch failed")
    ELSE IF resp.status = 503 THEN Throw("MODEL_LOADING")
    ELSE IF resp.status # 200 THEN Throw("HF_STATUS")
    ELSE IF ~IsNull(resp.error) /\ Len(resp.error[1]) > 0 THEN Throw("HF_ERROR")
    ELSE Ok(IF IsNull(resp.text) THEN Null ELSE Some(Trim(resp.text[1])))

Response(status, code, text) == [status |-> status, code |-> code, text |-> text]

\* lines 101-107: what is sent once a tier has returned `text`
transcribeReply_Inverted(text) ==
    IF ~(IsNull(text) \/ Len(text[1]) = 0)
    THEN Response(422, "TRANSCRIPTION_EMPTY", Null)
    ELSE Response(200, "OK", text)

transcribeReply_NullOnly(text) ==
    IF IsNull(text)
    THEN Response(422, "TRANSCRIPTION_EMPTY", Null)
    ELSE Response(200, "OK", text)

transcribeReply(text) ==
    IF IsNull(text) \/ Len(text[1]) = 0
    THEN Response(422, "TRANSCRIPTION_EMPTY", Null)
    ELSE Response(200, "OK", text)

\* lines 92-97 and 109-111: what is sent once the fallback tier has thrown
fallbackCatch(message) ==
    IF message = "MODEL_LOADING"
    THEN Response(503, "MODEL_LOADING", Null)
    ELSE Response(502, "HF_ERROR", Null)

Tokens == {<<>>, <<" ">>, <<"h", "f", "_", "x">>}
TokenMissing_UnsetOnly(token) == token = <<>>

\* !config.huggingface.apiToken?.trim()
TokenMissing(token) == Len(Trim(token)) = 0

Pending == [ok |-> FALSE, message |-> "pending"]
NoWhisperResponse == [status |-> -1, error |-> Null, text |-> Null]
\* a call of a speech tier: what was sent, the answer and what callWhisper made of it
Call(model, mimeType) ==
    [model |-> model, mimeType |-> mimeType, resp |-> NoWhisperResponse, result |-> Pending]
Answered(call, resp, r) == [call EXCEPT !.resp = resp, !.result = r]

InitTranscribe ==
    /\ t_pc = "start"
    /\ t_req \in [file : BOOLEAN, mimetype : {"", "audio/wav", "audio/ogg"}, token : Tokens]
    /\ t_calls = <<>>
    /\ t_text = Null
    /\ t_sent = <<>>
    /\ t_cleaned = 0
    /\ f_pc = "idle"
    /\ f_in = FnIdleIn
    /\ f_out = FnNoOut
    /\ o_pc = "idle"
    /\ o_req = IdleOrchReq
    /\ o_task = <<>>
    /\ o_done = <<>>
    /\ o_calls = <<>>
    /\ o_diag = <<>>
    /\ o_reply = NoReply
    /\ o_images = <<>>
    /\ o_sent = <<>>
    /\ o_cleaned = <<>>
    /\ n_pc = "idle"
    /\ n_in = IdleNarrativeIn
    /\ n_diag = <<>>
    /\ n_out = <<>>
    /\ s_store = NoSessions
    /\ s_reqs = <<>>

\* lines 54-77: validation, then the call of the primary tier is issued
T_Begin ==
    /\ t_pc = "start"
    /\ IF ~t_req.file
       THEN /\ t_sent' = Append(t_sent, Response(400, "NO_AUDIO", Null))
            /\ t_pc' = "done"
            /\ UNCHANGED t_calls
       ELSE IF TokenMissing(t_req.token)
       THEN /\ t_sent' = Append(t_sent, Response(503, "SERVICE_NOT_CONFIGURED", Null))
            /\ t_pc' = "done"
            /\ UNCHANGED t_calls
       ELSE /\ t_calls' = <<Call(PRIMARY_MODEL,
                                 IF t_req.mimetype = "" THEN "audio/webm" ELSE t_req.mimetype)>>
            /\ t_pc' = "primary"
            /\ UNCHANGED t_sent
    /\ UNCHANGED <<t_req, t_text, t_cleaned, fvars, ovars, nvars, svars>>

\* lines 77-90 and 101-114: the primary tier answers
T_PrimaryReturns ==
    /\ t_pc = "primary"
    /\ \E resp \in WhisperResponses :
         LET r == callWhisper(resp) IN
         IF r.ok
         THEN /\ t_calls' = [t_calls EXCEPT ![1] = Answered(@, resp, r)]
              /\ t_text' = r.value
              /\ t_sent' = Append(t_sent, transcribeReply(r.value))
              /\ t_cleaned' = t_cleaned + 1
              /\ t_pc' = "done"
         ELSE /\ t_calls' = Append([t_calls EXCEPT ![1] = Answered(@, resp, r)],
                                   Call(FALLBACK_MODEL, t_calls[1].mimeType))
              /\ t_pc' = "fallback"
              /\ UNCHANGED <<t_text, t_sent, t_cleaned>>
    /\ UNCHANGED <<t_req, fvars, ovars, nvars, svars>>

\* lines 90-114: the fallback tier answers
T_FallbackReturns ==
    /\ t_pc = "fallback"
    /\ \E resp \in WhisperResponses :
         LET r == callWhisper(resp) IN
         /\ t_calls' = [t_calls EXCEPT ![2] = Answered(@, resp, r)]
         /\ IF r.ok
            THEN /\ t_text' = r.value
                 /\ t_sent' = Append(t_sent, transcribeReply(r.value))
            ELSE /\ t_sent' = Append(t_sent, fallbackCatch(r.message))
                 /\ UNCHANGED t_text
         /\ t_cleaned' = t_cleaned + 1
         /\ t_pc' = "done"
    /\ UNCHANGED <<t_req, fvars, ovars, nvars, svars>>

NextTranscribe == T_Begin \/ T_PrimaryReturns \/ T_FallbackReturns

(***************************************************************************)
(* Conversational generation (chat.controller.ts).                         *)
(* A remote answer is [status, error, generated]: error is the `error`     *)
(* field of a JSON object, generated is data[0].generated_text.            *)
(***************************************************************************)
QalbResponses ==
    [status : {503, 500}, error : {Null}, generated : {Null}]
    \cup [status : {200}, error : {Some(<<>>)}, generated : {Null}]
    \cup [status : {200}, error : {Null},
          generated : {Null, Some(<<" ">>), Some(<<"j", "i">>)}]

callQalb_AcceptsEmpty(resp) ==
    IF resp.status = 503 THEN Throw("MODEL_LOADING")
    ELSE IF resp.status # 200 THEN Throw("QALB_STATUS")
    ELSE IF ~IsNull(resp.error) THEN Throw("QALB_ERROR")
    ELSE Ok(IF IsNull(resp.generated) THEN <<>> ELSE Trim(resp.generated[1]))

callQalb(resp) ==
    IF resp.status = 503 THEN Throw("MODEL_LOADING")
    ELSE IF resp.status # 200 THEN Throw("QALB_STATUS")
    ELSE IF ~IsNull(resp.error) THEN Throw("QALB_ERROR")
    ELSE IF IsNull(resp.generated) \/ Len(Trim(resp.generated[1])) = 0
    THEN Throw("QALB_EMPTY_RESPONSE")
    ELSE Ok(Trim(resp.generated[1]))

\* The Urdu keywords of the source are single symbols of the model's alphabet.
K_bimari   == <<"[bimari]">>
K_blight   == <<"[blight]">>
K_khaad    == <<"[khaad]">>
K_paani    == <<"[paani]">>
K_aabpashi == <<"[aabpashi]">>
K_disease    == <<"d","i","s","e","a","s","e">>
K_fertilizer == <<"f","e","r","t","i","l","i","z","e","r">>
K_nutrient   == <<"n","u","t","r","i","e","n","t">>
K_water      == <<"w","a","t","e","r">>

getUrduFallbackResponse(message) ==
    LET lower == ToLowerCase(message) IN
    IF Includes(lower, K_bimari) \/ Includes(lower, K_blight) \/ Includes(lower, K_disease)
    THEN <<Lit("(Urdu) upload a photo of the affected leaves for a diagnosis")>>
    ELSE IF Includes(lower, K_khaad) \/ Includes(lower, K_fertilizer)
            \/ Includes(lower, K_nutrient)
    THEN <<Lit("(Urdu) have the soil tested before applying fertilizer")>>
    ELSE IF Includes(lower, K_paani) \/ Includes(lower, K_aabpashi)
            \/ Includes(lower, K_water)
    THEN <<Lit("(Urdu) irrigate in the morning; drip irrigation is best")>>
    ELSE <<Lit("(Urdu) your question was received: \""), Str(message),
           Lit("\"\n\n(Urdu) upload a photo of your crop for the best diagnosis")>>

LoadingNotice == Lit("(Urdu) the Qalb model is loading, try again in 20-30 seconds\n\n")

\* the replies a request can carry
NarrativeReply(lines)  == [kind |-> "narrative", lines |-> lines]
GeneratedReply(text)   == [kind |-> "generated", text |-> text]
FallbackReply(parts)   == [kind |-> "fallback", parts |-> parts]

\* lines 145-159: the reply of a text-only chat once callQalb has thrown `message`
textChatCatch(userMessage, message) ==
    IF message = "MODEL_LOADING"
    THEN FallbackReply(<<LoadingNotice>> \o getUrduFallbackResponse(userMessage))
    ELSE FallbackReply(getUrduFallbackResponse(userMessage))

imageChatCatch_LocalResponder(baseNarrative, userMessage) ==
    FallbackReply(getUrduFallbackResponse(userMessage))

\* lines 127-130: the reply of a chat with images once callQalb has thrown
imageChatCatch(baseNarrative, userMessage) == NarrativeReply(baseNarrative)

(***************************************************************************)
(* Orchestrator: diagnose (diagnose.controller.ts) and chat                *)
(* (chat.controller.ts).                                                   *)
(***************************************************************************)
File(i) == [filename |-> <<"upload", i>>, originalname |-> <<"leaf", i>>]

S_TomatoHealthy   == S_Tomato \o S_sep \o S_healthy
S_CornHealthyCaps == S_Corn \o S_sep \o S_HEALTHY \o S_us \o <<"l","e","a","f">>
S_TomatoBlight    == S_Tomato \o S_sep \o S_Early \o S_us \o S_blight
S_TomatoBactSpot  == S_Tomato \o S_sep \o S_Bacterial \o S_us \o S_spot

ClassifierBodies ==
    { <<>>,
      <<Result(S_TomatoBlight, 30), Result(S_CornHealthyCaps, 950)>>,
      <<Result(S_TomatoBlight, 150), Result(S_TomatoBactSpot, 820),
        Result(S_TomatoHealthy, 20), Result(S_Corn, 5), Result(S_healthy, 5)>>,
      <<Result(S_Corn, 400)>> }

ClassifierResponses ==
    [status : {0, 503, 500}, body : {<<>>}]
    \cup [status : {200}, body : ClassifierBodies]

Messages == {<<>>, <<" ">>, <<"W","a","t","e","r","?">>, <<"H","i">>}

\* the .catch of diagnose (lines 28-40)
sentinelDiagnose_Healthy(file) ==
    [rawResults    |-> <<>>,
     topPrediction |-> <<"E","r","r","o","r">>,
     confidence    |-> 0,
     isHealthy     |-> TRUE,
     diseaseName   |-> Null,
     plantName     |-> Null,
     severity      |-> "mild",
     humanReadable |-> <<Lit("Could not analyse image: "), Str(file.originalname)>>]

sentinelDiagnose(file) ==
    [rawResults    |-> <<>>,
     topPrediction |-> <<"E","r","r","o","r">>,
     confidence    |-> 0,
     isHealthy     |-> FALSE,
     diseaseName   |-> Null,
     plantName     |-> Null,
     severity      |-> "mild",
     humanReadable |-> <<Lit("Could not analyse image: "), Str(file.originalname)>>]

\* the .catch of chat (lines 108-115)
sentinelChat(file) ==
    [rawResults    |-> <<>>,
     topPrediction |-> <<"E","r","r","o","r">>,
     confidence    |-> 0,
     isHealthy     |-> FALSE,
     diseaseName   |-> Null,
     plantName     |-> Null,
     severity      |-> "mild",
     humanReadable |-> <<Lit("Could not analyse: "), Str(file.originalname)>>]

Sentinel(handler, file) ==
    IF handler = "diagnose" THEN sentinelDiagnose(file) ELSE sentinelChat(file)

\* what Promise.all sees of a promise that has rejected
Rejected == [rejected |-> TRUE]

Settled_Uncaught(handler, file, outcome) ==
    IF outcome.ok THEN outcome.value ELSE Rejected

\* classifyPlantDisease(file.path).catch(...): the value the promise of a file
\* resolves to, given how its classification ended
Settled(handler, file, outcome) ==
    IF outcome.ok THEN outcome.value ELSE Sentinel(handler, file)

\* Promise.all: the array of the values, by position of the promise
promiseAll_CompletionOrder(values, done) == [k \in 1..Len(done) |-> values[done[k]][1]]

promiseAll(values, done) == [i \in 1..Len(values) |-> values[i][1]]

\* the images persisted with the user message
ImageAnalyses(files, diagnoses) ==
    [i \in 1..Len(diagnoses) |->
        [filename      |-> files[i].filename,
         originalName  |-> files[i].originalname,
         hfResults     |-> diagnoses[i].rawResults,
         topPrediction |-> diagnoses[i].topPrediction,
         confidence    |-> diagnoses[i].confidence]]

\* the per-image summaries of the response of diagnose (lines 80-88)
Summaries(diagnoses) ==
    [i \in 1..Len(diagnoses) |->
        [topPrediction |-> diagnoses[i].topPrediction,
         confidence    |-> diagnoses[i].confidence,
         isHealthy     |-> diagnoses[i].isHealthy,
         diseaseName   |-> diagnoses[i].diseaseName,
         plantName     |-> diagnoses[i].plantName,
         severity      |-> diagnoses[i].severity,
         humanReadable |-> diagnoses[i].humanReadable]]

ErrorResponse(status, code) == [status |-> status, code |-> code]

Requests ==
    [handler : {"diagnose", "chat"},
     files   : UNION {[1..n -> {0}] : n \in 0..MaxFiles},
     message : Messages,
     token   : Tokens]

FilesOf(req) == [i \in 1..Len(req.files) |-> File(i)]

InitOrch ==
    /\ o_pc = "start"
    /\ o_req \in Requests
    /\ o_task = <<>>
    /\ o_done = <<>>
    /\ o_calls = <<>>
    /\ o_diag = <<>>
    /\ o_reply = NoReply
    /\ o_images = <<>>
    /\ o_sent = <<>>
    /\ o_cleaned = <<>>
    /\ f_pc = "idle"
    /\ f_in = FnIdleIn
    /\ f_out = FnNoOut
    /\ t_pc = "idle"
    /\ t_req = IdleTranscribeReq
    /\ t_calls = <<>>
    /\ t_text = Null
    /\ t_sent = <<>>
    /\ t_cleaned = 0
    /\ n_pc = "idle"
    /\ n_in = IdleNarrativeIn
    /\ n_diag = <<>>
    /\ n_out = <<>>
    /\ s_store = NoSessions
    /\ s_reqs = <<>>

\* A classification is in "preprocess" or "fetch", or has ended: "failed" (it
\* threw; the message is logged and dropped) or "classified" (body is the result
\* list the classifier answered with). fetched counts the calls of the remote
\* classifier made for the file.
Task(st, fetched, body) == [st |-> st, fetched |-> fetched, body |-> body]
TaskEnded(outcome, resp) ==
    IF outcome.ok THEN Task("classified", 1, resp.body) ELSE Task("failed", 1, <<>>)

AllSettled == \A i \in 1..Len(o_task) : o_task[i].st \in {"failed", "classified"}

\* Promise.all rejects as soon as one of its promises has rejected
PromiseAllRejected == \E i \in 1..Len(o_diag) : o_diag[i] = <<Rejected>>

\* cleanupFiles(files), called from the finally block
CleanedUp(cleaned, req) ==
    IF Len(req.files) > 0
    THEN Append(cleaned, {i : i \in 1..Len(req.files)})
    ELSE cleaned

\* a call of the generation tier: the prompt, and whether callQalb returned
\* ("pending" while it is awaited, then TRUE, or FALSE if it threw)
GenerateCall(prompt) == [kind |-> "generate", prompt |-> prompt, returned |-> "pending"]

\* the prompt handed to callQalb for a request with images (line 125)
EnrichPrompt(base) == <<Lit("(Urdu) explain this crop diagnosis to a farmer:\n\n"), base>>

\* lines 14-41 of diagnose, 88-117 and 143-159 of chat: validation, then one
\* classification per file is started (each runs up to its first await), or, for
\* a chat without images, the generation tier is called
O_Begin ==
    /\ o_pc = "start"
    /\ LET n     == Len(o_req.files)
           files == FilesOf(o_req)
       IN
       IF o_req.handler = "diagnose" /\ n = 0
       THEN /\ o_sent' = Append(o_sent, ErrorResponse(400, "NO_IMAGES"))
            /\ o_pc' = "done"
            /\ UNCHANGED <<o_task, o_done, o_calls, o_diag, o_reply>>
       ELSE IF o_req.handler = "chat" /\ n = 0 /\ Len(Trim(o_req.message)) = 0
       THEN /\ o_sent' = Append(o_sent, ErrorResponse(400, "EMPTY_REQUEST"))
            /\ o_pc' = "done"
            /\ UNCHANGED <<o_task, o_done, o_calls, o_diag, o_reply>>
       ELSE IF n > 0
       THEN /\ o_pc' = "classifying"
            /\ IF TokenMissing(o_req.token)
               THEN /\ o_task' = [i \in 1..n |-> Task("failed", 0, <<>>)]
                    /\ o_diag' = [i \in 1..n |->
                                    <<Settled(o_req.handler, files[i],
                                              Throw("HF_API_TOKEN not configured."))>>]
                    /\ o_done' = [i \in 1..n |-> i]
               ELSE /\ o_task' = [i \in 1..n |-> Task("preprocess", 0, <<>>)]
                    /\ o_diag' = [i \in 1..n |-> <<>>]
                    /\ o_done' = <<>>
            /\ UNCHANGED <<o_calls, o_reply, o_sent>>
       ELSE IF TokenMissing(o_req.token)
       THEN /\ o_reply' = FallbackReply(getUrduFallbackResponse(o_req.message))
            /\ o_pc' = "db"
            /\ UNCHANGED <<o_task, o_done, o_calls, o_diag, o_sent>>
       ELSE /\ o_calls' = Append(o_calls, GenerateCall(o_req.message))
            /\ o_pc' = "qalbText"
            /\ UNCHANGED <<o_task, o_done, o_diag, o_reply, o_sent>>
    /\ UNCHANGED <<o_req, o_images, o_cleaned, fvars, tvars, nvars, svars>>

\* classifyPlantDisease lines 67-81: preprocessImage ends; the fetch is issued,
\* or sharp has thrown and the .catch of the handler yields the sentinel
O_Preprocessed(i) ==
    /\ o_pc = "classifying"
    /\ i \in 1..Len(o_task)
    /\ o_task[i].st = "preprocess"
    /\ \E ok \in BOOLEAN :
         IF ok
         THEN /\ o_task' = [o_task EXCEPT ![i] = Task("fetch", @.fetched + 1, <<>>)]
              /\ UNCHANGED <<o_diag, o_done>>
         ELSE LET outcome == Throw("Input file is missing or unsupported") IN
              /\ o_task' = [o_task EXCEPT ![i] = Task("failed", 0, <<>>)]
              /\ o_diag' = [o_diag EXCEPT
                              ![i] = <<Settled(o_req.handler, File(i), outcome)>>]
              /\ o_done' = Append(o_done, i)
    /\ UNCHANGED <<o_pc, o_req, o_calls, o_reply, o_images, o_sent, o_cleaned, fvars, tvars, nvars, svars>>

\* classifyPlantDisease lines 83-119 and the .catch: the classifier answers
O_Classified(i) ==
    /\ o_pc = "classifying"
    /\ i \in 1..Len(o_task)
    /\ o_task[i].st = "fetch"
    /\ \E resp \in ClassifierResponses :
         LET outcome == classifyResponse(resp) IN
         /\ o_task' = [o_task EXCEPT ![i] = TaskEnded(outcome, resp)]
         /\ o_diag' = [o_diag EXCEPT ![i] = <<Settled(o_req.handler, File(i), outcome)>>]
         /\ o_done' = Append(o_done, i)
    /\ UNCHANGED <<o_pc, o_req, o_calls, o_reply, o_images, o_sent, o_cleaned, fvars, tvars, nvars, svars>>

\* Promise.all has resolved: diagnose lines 43-58, chat lines 117-141
O_Assemble ==
    /\ o_pc = "classifying"
    /\ AllSettled \/ PromiseAllRejected
    /\ IF PromiseAllRejected
       THEN /\ o_pc' = "raised"
            /\ o_cleaned' = CleanedUp(o_cleaned, o_req)
            /\ UNCHANGED <<o_calls, o_reply, o_images>>
       ELSE LET diagnoses == promiseAll(o_diag, o_done)
                base      == buildDiagnosisNarrative(diagnoses, o_req.message)
            IN
            /\ IF o_req.handler = "diagnose" \/ TokenMissing(o_req.token)
               THEN /\ o_reply' = NarrativeReply(base)
                    /\ o_images' = ImageAnalyses(FilesOf(o_req), diagnoses)
                    /\ o_pc' = "db"
                    /\ UNCHANGED o_calls
               ELSE /\ o_calls' = Append(o_calls, GenerateCall(EnrichPrompt(base)))
                    /\ o_pc' = "qalbImages"
                    /\ UNCHANGED <<o_reply, o_images>>
            /\ UNCHANGED o_cleaned
    /\ UNCHANGED <<o_req, o_task, o_done, o_diag, o_sent, fvars, tvars, nvars, svars>>

\* chat lines 126-141 and 147-156: the generation tier answers
O_QalbReturns ==
    /\ o_pc \in {"qalbText", "qalbImages"}
    /\ \E resp \in QalbResponses :
         LET r == callQalb(resp) IN
         /\ o_calls' = [o_calls EXCEPT ![Len(o_calls)].returned = r.ok]
         /\ IF o_pc = "qalbText"
            THEN /\ o_reply' = IF r.ok THEN GeneratedReply(r.value)
                               ELSE textChatCatch(o_req.message, r.message)
                 /\ UNCHANGED o_images
            ELSE LET diagnoses == promiseAll(o_diag, o_done) IN
                 /\ o_reply' = IF r.ok THEN GeneratedReply(r.value)
                               ELSE imageChatCatch(
                                      buildDiagnosisNarrative(diagnoses, o_req.message),
                                      o_req.message)
                 /\ o_images' = ImageAnalyses(FilesOf(o_req), diagnoses)
    /\ o_pc' = "db"
    /\ UNCHANGED <<o_req, o_task, o_done, o_diag, o_sent, o_cleaned, fvars, tvars, nvars, svars>>

\* diagnose lines 60-93, chat lines 171-184: Query.findOneAndUpdate ends; the
\* response is sent if it succeeded, and the finally block cleans the files up
O_Persisted ==
    /\ o_pc = "db"
    /\ \E ok \in BOOLEAN :
         /\ IF ok
            THEN /\ o_pc' = "done"
                 /\ o_sent' = Append(o_sent,
                        IF o_req.handler = "diagnose"
                        THEN [status |-> 200, code |-> "OK", reply |-> o_reply,
                              diagnoses |-> Summaries(promiseAll(o_diag, o_done))]
                        ELSE [status |-> 200, code |-> "OK", reply |-> o_reply])
            ELSE /\ o_pc' = "raised"
                 /\ UNCHANGED o_sent
    /\ o_cleaned' = CleanedUp(o_cleaned, o_req)
    /\ UNCHANGED <<o_req, o_task, o_done, o_calls, o_diag, o_reply, o_images, fvars, tvars, nvars, svars>>

NextOrch ==
    \/ O_Begin
    \/ \E i \in 1..MaxFiles : O_Preprocessed(i)
    \/ \E i \in 1..MaxFiles : O_Classified(i)
    \/ O_Assemble
    \/ O_QalbReturns
    \/ O_Persisted

(***************************************************************************)
(* The narrative of a batch: the classifier's answers for the images of a  *)
(* request become diagnoses (diagnose.controller.ts, lines 25-43), which   *)
(* buildDiagnosisNarrative turns into the reply (line 46).                 *)
(***************************************************************************)
S_CornRust == S_Corn \o S_sep \o <<"C","o","m","m","o","n">> \o S_us \o <<"r","u","s","t">>

\* non-empty result lists of one to five entries, as the classifier sends them
NarrativeBodies ==
    (ClassifierBodies \ {<<>>}) \cup
    { <<Result(S_TomatoHealthy, 950)>>,
      <<Result(S_TomatoBlight, 100), Result(S_TomatoHealthy, 80),
        Result(S_TomatoBactSpot, 820)>>,
      <<Result(S_CornRust, 600), Result(S_Corn, 200), Result(S_TomatoBlight, 150),
        Result(S_TomatoHealthy, 50)>> }

NarrativeAnswers ==
    [status : {500}, body : {<<>>}] \cup [status : {200}, body : NarrativeBodies]

NarrativeMessages == Messages \cup {<<" ","o","k"," ">>}

InitNarrative ==
    /\ n_pc = "answers"
    /\ n_in \in [answers     : UNION {[1..n -> NarrativeAnswers] : n \in 0..MaxFiles},
                  userMessage : NarrativeMessages]
    /\ n_diag = <<>>
    /\ n_out = <<>>
    /\ s_store = NoSessions
    /\ s_reqs = <<>>
    /\ f_pc = "idle"
    /\ f_in = FnIdleIn
    /\ f_out = FnNoOut
    /\ t_pc = "idle"
    /\ t_req = IdleTranscribeReq
    /\ t_calls = <<>>
    /\ t_text = Null
    /\ t_sent = <<>>
    /\ t_cleaned = 0
    /\ o_pc = "idle"
    /\ o_req = IdleOrchReq
    /\ o_task = <<>>
    /\ o_done = <<>>
    /\ o_calls = <<>>
    /\ o_diag = <<>>
    /\ o_reply = NoReply
    /\ o_images = <<>>
    /\ o_sent = <<>>
    /\ o_cleaned = <<>>

\* every classification has ended and Promise.all has resolved
N_Classify ==
    /\ n_pc = "answers"
    /\ n_diag' = [i \in 1..Len(n_in.answers) |->
                    Settled("diagnose", File(i), classifyResponse(n_in.answers[i]))]
    /\ n_pc' = "classified"
    /\ UNCHANGED <<n_in, n_out, fvars, tvars, ovars, svars>>

\* const reply = buildDiagnosisNarrative(diagnoses, message)
N_Build ==
    /\ n_pc = "classified"
    /\ n_out' = buildDiagnosisNarrative(n_diag, n_in.userMessage)
    /\ n_pc' = "built"
    /\ UNCHANGED <<n_in, n_diag, fvars, tvars, ovars, svars>>

NextNarrative == N_Classify \/ N_Build

(***************************************************************************)
(* Specifications.                                                         *)
(***************************************************************************)
SpecFn         == InitFn /\ [][NextFn]_vars
SpecTranscribe == InitTranscribe /\ [][NextTranscribe]_vars
SpecOrch       == InitOrch /\ [][NextOrch]_vars
SpecNarrative  == InitNarrative /\ [][NextNarrative]_vars

(***************************************************************************)
(* Sessions (sessions.controller.ts): getSession, upsertSession and        *)
(* deleteSession on the Query collection. The collection is a function     *)
(* from session id to Null or the stored document; requests are handled    *)
(* concurrently, each one advancing at its awaits.                         *)
(***************************************************************************)
Users      == {"u1", "u2"}
\* req.userId: set by authenticate, set or left undefined by optionalAuth
UserIds    == {Null} \cup {Some(u) : u \in Users}
MessageLists == {"m0", "m1"}

Session(userId, messages) == [userId |-> userId, messages |-> messages]

\* Query.findOne({ sessionId })
findOne(store, sessionId) == store[sessionId]

\* Query.deleteOne({ sessionId })
deleteOne(store, sessionId) == [store EXCEPT ![sessionId] = Null]

\* Query.findOneAndUpdate({ sessionId }, { $setOnInsert: { userId }, $set:
\* { messages } }, { upsert: true })
findOneAndUpdate(store, sessionId, userId, messages) ==
    [store EXCEPT ![sessionId] =
        IF IsNull(@) THEN Some(Session(userId, messages))
        ELSE Some(Session(@[1].userId, messages))]

\* session.userId && session.userId.toString() !== req.userId
Forbidden(session, userId) == ~IsNull(session.userId) /\ session.userId # userId

sessionError(status, code) == [status |-> status, code |-> code, data |-> Null]
sessionSuccess(data) == [status |-> 200, code |-> "OK", data |-> Some(data)]

\* GET /:sessionId passes optionalAuth, DELETE /:sessionId passes authenticate
SessionRequests ==
    [op : {"get"}, sessionId : SessionIds, userId : UserIds]
    \cup [op : {"delete"}, sessionId : SessionIds, userId : UserIds \ {Null}]

\* a request in progress: found holds what findOne returned once it has
InProgress(req) ==
    [op |-> req.op, sessionId |-> req.sessionId, userId |-> req.userId,
     pc |-> "findOne", found |-> <<>>, sent |-> <<>>]

InitSessions ==
    /\ s_store \in [SessionIds -> {Null} \cup {Some(Session(u, "m0")) : u \in UserIds}]
    /\ s_reqs \in [1..MaxRequests -> {InProgress(req) : req \in SessionRequests}]
    /\ f_pc = "idle"
    /\ f_in = FnIdleIn
    /\ f_out = FnNoOut
    /\ t_pc = "idle"
    /\ t_req = IdleTranscribeReq
    /\ t_calls = <<>>
    /\ t_text = Null
    /\ t_sent = <<>>
    /\ t_cleaned = 0
    /\ o_pc = "idle"
    /\ o_req = IdleOrchReq
    /\ o_task = <<>>
    /\ o_done = <<>>
    /\ o_calls = <<>>
    /\ o_diag = <<>>
    /\ o_reply = NoReply
    /\ o_images = <<>>
    /\ o_sent = <<>>
    /\ o_cleaned = <<>>
    /\ n_pc = "idle"
    /\ n_in = IdleNarrativeIn
    /\ n_diag = <<>>
    /\ n_out = <<>>

\* getSession lines 289-303, deleteSession lines 340-350: findOne ends; the
\* request is answered 404 or 403, or the session is returned (getSession), or
\* deleteOne is issued (deleteSession); a rejection is rethrown unanswered
Sess_FindOne(r) ==
    /\ r \in 1..Len(s_reqs)
    /\ s_reqs[r].pc = "findOne"
    /\ \E ok \in BOOLEAN :
         IF ~ok
         THEN s_reqs' = [s_reqs EXCEPT ![r].pc = "raised"]
         ELSE LET session == findOne(s_store, s_reqs[r].sessionId) IN
              IF IsNull(session)
              THEN s_reqs' = [s_reqs EXCEPT
                                ![r].found = <<session>>,
                                ![r].sent = <<sessionError(404, "SESSION_NOT_FOUND")>>,
                                ![r].pc = "done"]
              ELSE IF Forbidden(session[1], s_reqs[r].userId)
              THEN s_reqs' = [s_reqs EXCEPT
                                ![r].found = <<session>>,
                                ![r].sent = <<sessionError(403, "FORBIDDEN")>>,
                                ![r].pc = "done"]
              ELSE IF s_reqs[r].op = "get"
              THEN s_reqs' = [s_reqs EXCEPT
                                ![r].found = <<session>>,
                                ![r].sent = <<sessionSuccess(
                                               [sessionId |-> s_reqs[r].sessionId,
                                                session   |-> session[1]])>>,
                                ![r].pc = "done"]
              ELSE s_reqs' = [s_reqs EXCEPT
                                ![r].found = <<session>>,
                                ![r].pc = "deleteOne"]
    /\ UNCHANGED <<s_store, fvars, tvars, ovars, nvars>>

\* deleteSession lines 352-353: deleteOne ends
Sess_DeleteOne(r) ==
    /\ r \in 1..Len(s_reqs)
    /\ s_reqs[r].pc = "deleteOne"
    /\ \E ok \in BOOLEAN :
         IF ok
         THEN /\ s_store' = deleteOne(s_store, s_reqs[r].sessionId)
              /\ s_reqs' = [s_reqs EXCEPT
                              ![r].sent = <<sessionSuccess(
                                             [deleted   |-> TRUE,
                                              sessionId |-> s_reqs[r].sessionId])>>,
                              ![r].pc = "done"]
         ELSE /\ s_reqs' = [s_reqs EXCEPT ![r].pc = "raised"]
              /\ UNCHANGED s_store
    /\ UNCHANGED <<fvars, tvars, ovars, nvars>>

\* upsertSession lines 309-333 with a sessionId and a messages array in the
\* body (without the array the answer is 400 and nothing is written)
Sess_Upsert ==
    /\ s_reqs # <<>>
    /\ \E sessionId \in SessionIds, userId \in UserIds, messages \in MessageLists :
         s_store' = findOneAndUpdate(s_store, sessionId, userId, messages)
    /\ UNCHANGED <<s_reqs, fvars, tvars, ovars, nvars>>

NextSessions ==
    \/ \E r \in 1..MaxRequests : Sess_FindOne(r)
    \/ \E r \in 1..MaxRequests : Sess_DeleteOne(r)
    \/ Sess_Upsert

SpecSessions == InitSessions /\ [][NextSessions]_vars

Init == InitFn \/ InitTranscribe \/ InitOrch \/ InitNarrative \/ InitSessions

Next == NextFn \/ NextTranscribe \/ NextOrch \/ NextNarrative \/ NextSessions

Spec == Init /\ [][Next]_vars

(***************************************************************************)
(* Properties of transcribe (checked under SpecTranscribe).                *)
(***************************************************************************)
\* what a remote speech answer is, told from the answer alone
ColdStart(resp)      == resp.status = 503
TierFailed(resp)     ==
    resp.status # 200 \/ (~IsNull(resp.error) /\ Len(resp.error[1]) > 0)
HasTranscript(resp)  ==
    ~TierFailed(resp) /\ ~IsNull(resp.text) /\ \E k \in 1..Len(resp.text[1]) : resp.text[1][k] # " "
EmptyTranscript(resp) == ~TierFailed(resp) /\ ~HasTranscript(resp)

\* C1: when the primary tier answers 503 and the fallback tier answers with a
\* transcript that is not blank, transcribe ends with exactly one response, the
\* success carrying that transcript (trimmed), after exactly two remote calls:
\* the primary model, then the fallback model.
C1_ColdStartThenFallbackSucceeds ==
    ( /\ t_pc = "done"
      /\ Len(t_calls) >= 2
      /\ ColdStart(t_calls[1].resp)
      /\ HasTranscript(t_calls[2].resp) )
    => /\ Len(t_calls) = 2
       /\ t_calls[1].model = PRIMARY_MODEL
       /\ t_calls[2].model = FALLBACK_MODEL
       /\ t_sent = <<Response(200, "OK", Some(Trim(t_calls[2].resp.text[1])))>>

C1_Witness ==
    /\ t_pc = "done"
    /\ Len(t_calls) = 2
    /\ ColdStart(t_calls[1].resp)
    /\ HasTranscript(t_calls[2].resp)
    /\ t_calls[2].resp.text = Some(<<" ", "a", "b", " ">>)
    /\ Len(t_sent) = 1
    /\ t_sent[1].status = 200

\* C2: at every moment the calls made so far are a prefix of <<primary,
\* fallback>> (each tier at most once, never the primary after the fallback), and
\* the fallback is called only once the primary's call has ended in failure.
C2_CascadeAdvancesMonotonically ==
    /\ Len(t_calls) <= 2
    /\ Len(t_calls) >= 1 => t_calls[1].model = PRIMARY_MODEL
    /\ Len(t_calls) = 2 =>
         /\ t_calls[2].model = FALLBACK_MODEL
         /\ t_calls[2].model # t_calls[1].model
         /\ t_calls[1].resp # NoWhisperResponse
         /\ TierFailed(t_calls[1].resp)
    /\ \A k \in 1..Len(t_calls) :
         t_calls[k].resp = NoWhisperResponse => k = Len(t_calls)

C2_Witness ==
    /\ t_pc = "fallback"
    /\ Len(t_calls) = 2
    /\ t_calls[1].resp.status = 500
    /\ t_calls[2].resp = NoWhisperResponse

\* C3: when both tiers fail, exactly one error is sent; it is 503 MODEL_LOADING
\* if and only if both tiers answered with the cold-start signal, and 502
\* HF_ERROR otherwise.
C3_TerminalErrorTellsCasesApart ==
    ( /\ t_pc = "done"
      /\ Len(t_calls) = 2
      /\ TierFailed(t_calls[1].resp)
      /\ TierFailed(t_calls[2].resp) )
    => /\ Len(t_sent) = 1
       /\ t_sent[1] = Response(503, "MODEL_LOADING", Null)
            <=> (ColdStart(t_calls[1].resp) /\ ColdStart(t_calls[2].resp))
       /\ t_sent[1] = Response(502, "HF_ERROR", Null)
            <=> ~(ColdStart(t_calls[1].resp) /\ ColdStart(t_calls[2].resp))

\* C4: a primary tier that answers 200 with an empty or missing transcript is
\* a failed tier, so the fallback tier is called before transcribe ends.
C4_EmptyOutputAdvancesCascade ==
    ( /\ t_pc = "done"
      /\ Len(t_calls) >= 1
      /\ EmptyTranscript(t_calls[1].resp) )
    => /\ Len(t_calls) = 2
       /\ t_calls[2].model = FALLBACK_MODEL

(***************************************************************************)
(* Properties of the severity classifier (checked under SpecFn).           *)
(***************************************************************************)
\* s contains "healthy" in some mix of upper and lower case, told letter by letter
HasHealthyMarker(s) ==
    \E i \in 1..Len(s) :
        /\ i + 6 <= Len(s)
        /\ \A k \in 1..7 : s[i + k - 1] \in {S_healthy[k], S_HEALTHY[k]}

\* C8: mapSeverity returns exactly one of the four tiers for every (condition,
\* confidence): healthy if and only if the condition contains "healthy" in any
\* letter case, whatever the confidence; otherwise mild below 0.4, moderate from
\* 0.4 and below 0.7, severe from 0.7.
C8_SeverityTiers ==
    f_out.fn = "mapSeverity" =>
        LET marker == HasHealthyMarker(f_in.label)
            p      == f_in.score
            tier   == f_out.value
        IN /\ tier \in {"healthy", "mild", "moderate", "severe"}
           /\ tier = "healthy" <=> marker
           /\ ~marker => /\ tier = "mild" <=> p < 400
                         /\ tier = "moderate" <=> (400 <= p /\ p < 700)
                         /\ tier = "severe" <=> p >= 700

C8_Witness ==
    /\ f_out.fn = "mapSeverity"
    /\ f_in.label = S_Tomato \o S_HEALTHY
    /\ f_in.score = 990
    /\ f_out.value = "healthy"

(***************************************************************************)
(* Properties of diagnose and chat (checked under SpecOrch).               *)
(***************************************************************************)
NumFiles == Len(o_req.files)
Ended(i) == o_task[i].st \in {"failed", "classified"}
\* the narrative builder has been given the diagnoses
Assembled == o_pc \in {"qalbImages", "db", "done", "raised"} /\ NumFiles > 0

\* what the classification of file i alone yields, from the answer it received
OwnResult(i) ==
    IF o_task[i].st = "classified"
    THEN DiagnosisOf(o_task[i].body)
    ELSE Sentinel(o_req.handler, File(i))

OwnResults == [i \in 1..NumFiles |-> OwnResult(i)]

IsSectionHeader(line) ==
    \E k \in 1..Len(line) :
        line[k] \in {HealthyBanner} \cup
                    {Lit(severityEmoji(sev)) : sev \in {"healthy", "mild", "moderate", "severe"}}

HeaderPositions(lines) == {j \in 1..Len(lines) : IsSectionHeader(lines[j])}

\* the lines of the k-th per-image section: from its header up to the next
\* header, the advisory header or the end
SectionOf(lines, k) ==
    LET heads == HeaderPositions(lines)
        start == CHOOSE j \in heads : Cardinality({h \in heads : h < j}) = k - 1
        stops == {j \in (start + 1)..Len(lines) :
                     IsSectionHeader(lines[j]) \/ lines[j] = AdvisoryHeaderLine}
        stop  == IF stops = {} THEN Len(lines) + 1
                 ELSE CHOOSE j \in stops : \A h \in stops : j <= h
    IN SubSeq(lines, start, stop - 1)

HasCouldNotAnalyse(lines) ==
    \E j \in 1..Len(lines) : \E k \in 1..Len(lines[j]) :
        lines[j][k] \in {Lit("Could not analyse image: "), Lit("Could not analyse: ")}

FailedFiles == {i \in 1..NumFiles : o_task[i].st = "failed"}

\* C5: in a diagnose request with N >= 2 images of which exactly one failed,
\* the narrative has exactly N per-image sections and the section at the failed
\* image's position contains the "could not analyse" fragment.
C5_FailedImageSectionHasSentinelFragment ==
    ( /\ o_req.handler = "diagnose"
      /\ NumFiles >= 2
      /\ o_pc \in {"db", "done"}
      /\ Cardinality(FailedFiles) = 1 )
    => /\ o_reply.kind = "narrative"
       /\ Cardinality(HeaderPositions(o_reply.lines)) = NumFiles
       /\ \A i \in FailedFiles : HasCouldNotAnalyse(SectionOf(o_reply.lines, i))

\* C6: once the classifications of a request have all ended, in whatever
\* order, the diagnoses given to the narrative builder and the per-image
\* records and summaries are in submission order: element i is the result of
\* the i-th uploaded file.
C6_SubmissionOrder ==
    Assembled =>
        /\ o_pc = "qalbImages" =>
             o_calls[Len(o_calls)].prompt
                = EnrichPrompt(buildDiagnosisNarrative(OwnResults, o_req.message))
        /\ o_reply.kind = "narrative" =>
             o_reply.lines = buildDiagnosisNarrative(OwnResults, o_req.message)
        /\ o_pc \in {"db", "done", "raised"} =>
             /\ Len(o_images) = NumFiles
             /\ \A i \in 1..NumFiles :
                  /\ o_images[i].filename = File(i).filename
                  /\ o_images[i].originalName = File(i).originalname
                  /\ o_images[i].hfResults = OwnResult(i).rawResults
                  /\ o_images[i].topPrediction = OwnResult(i).topPrediction
                  /\ o_images[i].confidence = OwnResult(i).confidence
        /\ (o_pc = "done" /\ o_req.handler = "diagnose") =>
             /\ Len(o_sent) = 1
             /\ o_sent[1].diagnoses = Summaries(OwnResults)

C6_Witness ==
    /\ o_pc = "done"
    /\ NumFiles = 2
    /\ o_done = <<2, 1>>
    /\ \A i \in 1..2 : o_task[i].st = "classified"
    /\ o_task[1].body # o_task[2].body

\* C7: every failed image is replaced by a sentinel (not healthy, severity mild,
\* no raw results, a "could not analyse" fragment naming the file), every image
\* that was classified has exactly the result of its own answer whatever its
\* siblings did, and the handler goes on only when every classification has
\* ended (none is dropped because a sibling failed).
C7_FailuresBecomeSentinels ==
    /\ Len(o_diag) = Len(o_task)
    /\ \A i \in 1..Len(o_task) :
         /\ Ended(i) <=> ~IsNull(o_diag[i])
         /\ o_task[i].st = "failed" =>
              LET d == o_diag[i][1] IN
              /\ d.isHealthy = FALSE
              /\ d.severity = "mild"
              /\ d.rawResults = <<>>
              /\ d.humanReadable \in
                   {<<Lit("Could not analyse image: "), Str(File(i).originalname)>>,
                    <<Lit("Could not analyse: "), Str(File(i).originalname)>>}
         /\ o_task[i].st = "classified" => o_diag[i][1] = DiagnosisOf(o_task[i].body)
    /\ (\E i \in 1..Len(o_task) : ~Ended(i)) => o_pc = "classifying"
    /\ o_pc \in {"qalbImages", "db", "done", "raised"} => Len(o_task) = NumFiles

C7_Witness ==
    /\ o_pc = "done"
    /\ NumFiles = 2
    /\ o_task[1].st = "failed"
    /\ o_task[1].fetched = 1
    /\ o_task[2].st = "classified"
    /\ o_done = <<1, 2>>

SortedByScoreDesc(results) ==
    \A j \in 1..Len(results) : \A k \in 1..Len(results) :
        j < k => results[j].score >= results[k].score

\* the same results, each as often
SameResults(a, b) ==
    /\ Len(a) = Len(b)
    /\ \A x \in {a[j] : j \in 1..Len(a)} \cup {b[j] : j \in 1..Len(b)} :
         Cardinality({j \in 1..Len(a) : a[j] = x})
            = Cardinality({j \in 1..Len(b) : b[j] = x})

\* C9: in every diagnosis given to the narrative builder, rawResults is sorted
\* by descending score (and holds what the classifier returned, in whatever
\* order that was), and when rawResults is not empty topPrediction and
\* confidence are the label and score of its first element.
C9_RawResultsSortedTopFirst ==
    \A i \in 1..Len(o_task) :
        Ended(i) =>
            LET d == o_diag[i][1] IN
            /\ SortedByScoreDesc(d.rawResults)
            /\ o_task[i].st = "classified" => SameResults(d.rawResults, o_task[i].body)
            /\ Len(d.rawResults) > 0 =>
                 /\ d.topPrediction = d.rawResults[1].label
                 /\ d.confidence = d.rawResults[1].score

C9_Witness ==
    /\ Assembled
    /\ \E i \in 1..Len(o_task) :
         /\ o_task[i].st = "classified"
         /\ ~SortedByScoreDesc(o_task[i].body)
         /\ o_diag[i][1].confidence = 820

\* C10: a classified image is marked healthy if and only if the condition
\* parsed from its top label contains "healthy" in any letter case, and every
\* diagnosis (classified or sentinel) that is marked healthy has severity
\* healthy.
C10_HealthyFlagAndSeverity ==
    \A i \in 1..Len(o_task) :
        Ended(i) =>
            LET d == o_diag[i][1] IN
            /\ o_task[i].st = "classified" =>
                 (d.isHealthy <=> HasHealthyMarker(parseLabel(d.topPrediction).condition))
            /\ d.isHealthy => d.severity = "healthy"

C10_Witness ==
    /\ Assembled
    /\ \E i \in 1..Len(o_task) :
         /\ o_task[i].st = "classified"
         /\ o_diag[i][1].topPrediction = S_CornHealthyCaps
         /\ o_diag[i][1].isHealthy
         /\ o_diag[i][1].severity = "healthy"

(***************************************************************************)
(* Label parser.                                                           *)
(***************************************************************************)
IsText(s) == DOMAIN s = 1..Len(s)

\* C11: parseLabel returns a {plant, condition} pair of strings for every
\* input string, the empty one included; when the input contains the
\* triple-underscore separator the condition does not contain it; when the
\* input does not, the condition is "unknown condition" and the plant is the
\* whole input with underscores replaced by blanks, then trimmed.
C11_ParseLabelTotalAndSeparatorFree ==
    f_out.fn = "parseLabel" =>
        LET r   == f_out.value
            raw == f_in.label
        IN /\ DOMAIN r = {"plant", "condition"}
           /\ IsText(r.plant)
           /\ IsText(r.condition)
           /\ Includes(raw, S_sep) => ~Includes(r.condition, S_sep)
           /\ ~Includes(raw, S_sep) =>
                 /\ r.condition = S_unknown
                 /\ r.plant = Trim(ReplaceUnderscores(raw))

\* a label of two separators: both are consumed by the split
C11_Witness ==
    /\ f_out.fn = "parseLabel"
    /\ f_in.label = S_sep \o S_sep
    /\ f_out.value.condition = <<>>

(***************************************************************************)
(* Treatment advisor.                                                      *)
(***************************************************************************)
RemoveAndDestroyInstruction == "Remove and destroy affected plant parts immediately."
CopperBlightInstruction ==
    "Apply copper-based fungicide (e.g., Bordeaux mixture) every 7-10 days."

MentionsBlight(text) == Includes(ToLowerCase(text), P_blight)

\* C12, as claimed: for every condition text containing "blight" in any
\* letter case, the first action returned is the copper-fungicide blight
\* instruction and the generic fallback list is not returned.
C12_BlightFirstActionIsCopper ==
    (f_out.fn = "getTreatmentAdvice" /\ MentionsBlight(f_in.label)) =>
        /\ f_out.value[1] = CopperBlightInstruction
        /\ f_out.value # Advice_generic

\* C12, amended: for every condition text containing "blight" in any letter
\* case, the advisor returns a list whose first action is the
\* remove-and-destroy instruction and whose second action is the
\* copper-fungicide blight instruction; the generic fallback list is not
\* returned.
C12_BlightListHasCopperSecond ==
    (f_out.fn = "getTreatmentAdvice" /\ MentionsBlight(f_in.label)) =>
        /\ Len(f_out.value) >= 2
        /\ f_out.value[1] = RemoveAndDestroyInstruction
        /\ f_out.value[2] = CopperBlightInstruction
        /\ f_out.value # Advice_generic

\* "BLIGHT" in capitals, after another word
C12_Witness ==
    /\ f_out.fn = "getTreatmentAdvice"
    /\ f_in.label = <<"L","e","a","f">> \o <<"B","L","I","G","H","T">>
    /\ f_out.value[2] = CopperBlightInstruction

\* the rules of the advisor, in the order the claim gives them
AdviceRules ==
    << [patterns |-> {P_blight},                        advice |-> Advice_blight],
       [patterns |-> {P_rust},                          advice |-> Advice_rust],
       [patterns |-> {P_mildew},                        advice |-> Advice_mildew],
       [patterns |-> {P_bacterial_spot, P_bacterial},   advice |-> Advice_bacterial],
       [patterns |-> {P_leaf_spot, P_cercospora, P_septoria},
                                                        advice |-> Advice_leafSpot],
       [patterns |-> {P_mosaic, P_virus, P_curl},       advice |-> Advice_viral],
       [patterns |-> {P_scab},                          advice |-> Advice_scab],
       [patterns |-> {P_rot},                           advice |-> Advice_rot],
       [patterns |-> {P_anthracnose},                   advice |-> Advice_anthracnose] >>

MatchingRules(text) ==
    {k \in 1..Len(AdviceRules) :
        \E p \in AdviceRules[k].patterns : Includes(ToLowerCase(text), p)}

FirstOf(S) == CHOOSE k \in S : \A j \in S : k <= j

\* C13: getTreatmentAdvice returns the action list of the first rule, in the
\* order blight, rust, mildew, bacterial, leaf spot, viral, scab, rot,
\* anthracnose, one of whose patterns is a substring of the lower-cased
\* condition; it returns the five-item generic list exactly when no pattern
\* matches.
C13_FirstMatchingRuleWins ==
    f_out.fn = "getTreatmentAdvice" =>
        LET matching == MatchingRules(f_in.label) IN
        /\ matching # {} => f_out.value = AdviceRules[FirstOf(matching)].advice
        /\ (f_out.value = Advice_generic) <=> (matching = {})
        /\ Len(Advice_generic) = 5

\* a condition that matches the rust rule and the blight rule
C13_Witness ==
    /\ f_out.fn = "getTreatmentAdvice"
    /\ f_in.label = <<"R","u","s","t">> \o <<"B","l","i","g","h","t">>
    /\ MatchingRules(f_in.label) = {1, 2}
    /\ f_out.value = Advice_blight

(***************************************************************************)
(* Properties of the narrative (checked under SpecNarrative).  The         *)
(* narrative is read back line by line: a section starts at a line with    *)
(* the healthy banner or a severity mark.                                  *)
(***************************************************************************)
Built == n_pc = "built"

LinesOf(lines) == {lines[j] : j \in 1..Len(lines)}
PartsOf(lines) == UNION {{lines[j][k] : k \in 1..Len(lines[j])} : j \in 1..Len(lines)}

\* the number a header line carries, <<>> if it carries none
ImageNumberOf(line) ==
    IF Len(line) >= 3 /\ line[1] = Lit("**Image ") /\ line[3] = Lit(":** ")
    THEN <<line[2]>> ELSE <<>>

\* the section sec reports diagnosis d
ShowsDiagnosis(sec, d) ==
    IF d.isHealthy
    THEN /\ HealthyBanner \in PartsOf(<<sec[1]>>)
         /\ Len(sec) >= 2
         /\ Str(Interp(d.plantName)) \in PartsOf(<<sec[2]>>)
         /\ Pct(d.confidence) \in PartsOf(<<sec[2]>>)
    ELSE /\ Str(Interp(d.diseaseName)) \in PartsOf(<<sec[1]>>)
         /\ <<Lit("- **Plant:** "), Str(Interp(d.plantName))>> \in LinesOf(sec)
         /\ <<Lit("- **Condition:** "), Str(Interp(d.diseaseName))>> \in LinesOf(sec)
         /\ <<Lit("- **Confidence:** "), Pct(d.confidence), Lit("%")>> \in LinesOf(sec)

\* C14: for an empty diagnosis sequence the narrative is the apology alone;
\* otherwise it has no apology and exactly one section per diagnosis, the
\* k-th section reporting the k-th diagnosis, and a section header carries
\* the number "Image k" exactly when there are several diagnoses.
C14_OneSectionPerDiagnosisInOrder ==
    Built =>
        IF Len(n_diag) = 0
        THEN n_out = <<ApologyLine>>
        ELSE /\ ApologyLine \notin LinesOf(n_out)
             /\ Cardinality(HeaderPositions(n_out)) = Len(n_diag)
             /\ \A k \in 1..Len(n_diag) :
                   LET sec == SectionOf(n_out, k) IN
                   /\ ShowsDiagnosis(sec, n_diag[k])
                   /\ ImageNumberOf(sec[1]) =
                        IF Len(n_diag) > 1 THEN <<Num(k)>> ELSE <<>>

\* two images, the first healthy and the second diseased
C14_Witness ==
    /\ Built
    /\ Len(n_diag) = 2
    /\ n_diag[1].isHealthy
    /\ ~n_diag[2].isHealthy
    /\ n_diag[2].rawResults # <<>>
    /\ ImageNumberOf(SectionOf(n_out, 2)[1]) = <<Num(2)>>

\* the "Other possibilities" lines of a section
AlternatesLines(sec) ==
    SelectSeq(sec, LAMBDA line :
        Len(line) > 0 /\ line[1] = Lit("\n*Other possibilities:* "))

\* the names and percentages of a line, without its fixed text
Entries(line) == SelectSeq(line, LAMBDA part : part[1] # "lit")

AlternateName(label) ==
    LET parsed == parseLabel(label) IN
    IF parsed.condition = S_unknown THEN parsed.plant
    ELSE parsed.plant \o <<" ", "-", " ">> \o parsed.condition

\* rawResults[1..min(3, n-1)] (0-based), each as its name and its percentage
ExpectedAlternates(raw) ==
    Flatten([j \in 1..Min(3, Len(raw) - 1) |->
                <<Str(AlternateName(raw[j + 1].label)), Pct(raw[j + 1].score)>>])

\* C15: the section of a diagnosis with fewer than two raw results has no
\* alternates line; otherwise it has exactly one, listing the raw results at
\* indices 1..min(3, n-1) and no others, in their descending-score order, each
\* named through parseLabel.
C15_AlternatesAreNextThree ==
    Built =>
        \A k \in 1..Len(n_diag) :
            LET raw  == n_diag[k].rawResults
                alts == AlternatesLines(SectionOf(n_out, k))
            IN IF Len(raw) < 2
               THEN alts = <<>>
               ELSE /\ Len(alts) = 1
                    /\ Entries(alts[1]) = ExpectedAlternates(raw)
                    /\ Len(Entries(alts[1])) <= 2 * 3
                    /\ \A j \in 1..(Min(4, Len(raw)) - 1) :
                          raw[j].score >= raw[j + 1].score

\* five raw results: the second, third and fourth are listed, the fifth is not
C15_Witness ==
    /\ Built
    /\ Len(n_diag) = 1
    /\ Len(n_diag[1].rawResults) = 5
    /\ Len(Entries(AlternatesLines(SectionOf(n_out, 1))[1])) = 6
    /\ Str(AlternateName(n_diag[1].rawResults[5].label))
           \notin PartsOf(AlternatesLines(SectionOf(n_out, 1)))

AdvisoryPositions(lines)   == {j \in 1..Len(lines) : lines[j] = AdvisoryHeaderLine}
DisclaimerPositions(lines) == {j \in 1..Len(lines) : lines[j] = DisclaimerLine}

\* the head line of a treatment block
IsTreatmentHeader(line) == Len(line) > 0 /\ line[1] = Lit("**For ")
IsAdviceLine(line)      == Len(line) > 0 /\ line[1] = Lit("* ")
TreatmentPositions(lines) == {j \in 1..Len(lines) : IsTreatmentHeader(lines[j])}
AdvicePositions(lines)    == {j \in 1..Len(lines) : IsAdviceLine(lines[j])}

SomeDiseased == \E k \in 1..Len(n_diag) : ~n_diag[k].isHealthy

\* C16: the narrative has the advisory header exactly once when some
\* diagnosis is not healthy and not at all otherwise; the header comes after
\* every per-diagnosis section; the disclaimer is present exactly when the
\* header is, once, after the header and after every treatment block.
C16_AdvisoryOnceAfterSections ==
    Built =>
        LET adv   == AdvisoryPositions(n_out)
            disc  == DisclaimerPositions(n_out)
            heads == HeaderPositions(n_out)
            alts  == {j \in 1..Len(n_out) : AlternatesLines(<<n_out[j]>>) # <<>>}
            block == TreatmentPositions(n_out) \cup AdvicePositions(n_out)
        IN /\ Cardinality(adv) = IF SomeDiseased THEN 1 ELSE 0
           /\ Cardinality(disc) = Cardinality(adv)
           /\ \A a \in adv : \A h \in heads \cup alts : h < a
           /\ \A a \in adv : \A t \in block : a < t
           /\ \A d \in disc : \A t \in adv \cup block : t < d
           /\ SomeDiseased => TreatmentPositions(n_out) # {}

\* a healthy and a diseased image, and a user text after the disclaimer
C16_Witness ==
    /\ Built
    /\ Len(n_diag) = 2
    /\ n_diag[1].isHealthy
    /\ ~n_diag[2].isHealthy
    /\ n_diag[2].rawResults # <<>>
    /\ Cardinality(DisclaimerPositions(n_out)) = 1
    /\ n_out[Len(n_out)] # DisclaimerLine

\* the head line of the treatment block of diagnosis d
TreatmentHeaderOf(d) ==
    <<Lit("**For "), Str(Interp(d.diseaseName)), Lit(" on "),
      Str(Interp(d.plantName)), Lit(":**")>>

\* C17: the advisory section has one treatment block per distinct diseased
\* diagnosis: a non-healthy diagnosis with a plant and a condition has its
\* block exactly once in the narrative, also when another image of the
\* request has the same plant and condition.
C17_OneBlockPerDistinctDiagnosis ==
    Built =>
        \A k \in 1..Len(n_diag) :
            (~n_diag[k].isHealthy /\ ~IsNull(n_diag[k].diseaseName)) =>
                Cardinality({j \in 1..Len(n_out) :
                                n_out[j] = TreatmentHeaderOf(n_diag[k])}) = 1

\* a closing line, whatever text it quotes
IsClosingLine(line) ==
    /\ Len(line) = 3
    /\ line[1] = Lit("\n---\n*Regarding your query: \"")
    /\ line[2][1] = "str"

ClosingPositions(lines) == {j \in 1..Len(lines) : IsClosingLine(lines[j])}

\* C18, as claimed: for a non-empty diagnosis sequence the narrative has a
\* closing line quoting the user's text verbatim exactly when the user's
\* text is non-empty, and that line is then the last line, after the
\* advisory section and the disclaimer.
C18_ClosingLineIffNonEmpty ==
    (Built /\ Len(n_diag) > 0) =>
        LET closing == ClosingPositions(n_out) IN
        /\ (closing # {}) <=> (Len(n_in.userMessage) > 0)
        /\ closing # {} =>
              /\ closing = {Len(n_out)}
              /\ n_out[Len(n_out)][2] = Str(n_in.userMessage)
              /\ \A j \in AdvisoryPositions(n_out) \cup DisclaimerPositions(n_out) :
                    j < Len(n_out)

\* C18, amended: for a non-empty diagnosis sequence the narrative has a
\* closing line exactly when the user's text has a character other than
\* white space; the line quotes the text verbatim, untrimmed, and is the
\* last line, after the advisory section and the disclaimer.
C18_ClosingLineIffNonBlank ==
    (Built /\ Len(n_diag) > 0) =>
        LET closing == ClosingPositions(n_out) IN
        /\ (closing # {}) <=> (Len(Trim(n_in.userMessage)) > 0)
        /\ closing # {} =>
              /\ closing = {Len(n_out)}
              /\ n_out[Len(n_out)][2] = Str(n_in.userMessage)
              /\ \A j \in AdvisoryPositions(n_out) \cup DisclaimerPositions(n_out) :
                    j < Len(n_out)

\* a user text with blanks around it, after an advisory section
C18_Witness ==
    /\ Built
    /\ n_in.userMessage = <<" ", "o", "k", " ">>
    /\ DisclaimerPositions(n_out) = {Len(n_out) - 1}
    /\ n_out[Len(n_out)] = ClosingLine(<<" ", "o", "k", " ">>)

\* the entry of the highest score of a non-empty result list
TopOf(body) ==
    body[CHOOSE j \in 1..Len(body) : \A i \in 1..Len(body) : body[i].score <= body[j].score]

\* the classifier answered image i with "Tomato___healthy" at 0.95 on top
TomatoHealthyOnTop(i) ==
    /\ n_in.answers[i].status = 200
    /\ Len(n_in.answers[i].body) > 0
    /\ TopOf(n_in.answers[i].body) = Result(S_TomatoHealthy, 950)

\* C20: a classification whose top label is "Tomato___healthy" at 0.95 is
\* healthy with severity healthy; the section of every healthy diagnosis
\* has the healthy banner and no treatment block is emitted for it (every
\* block belongs to a non-healthy diagnosis); when all diagnoses are healthy
\* the narrative has neither advisory section nor disclaimer.
C20_HealthyBannerAndNoAdvice ==
    /\ n_pc \in {"classified", "built"} =>
          \A i \in 1..Len(n_diag) :
              TomatoHealthyOnTop(i) =>
                  /\ n_diag[i].isHealthy
                  /\ n_diag[i].severity = "healthy"
    /\ Built =>
          /\ \A k \in 1..Len(n_diag) :
                n_diag[k].isHealthy =>
                    /\ HealthyBanner \in PartsOf(<<SectionOf(n_out, k)[1]>>)
                    /\ TreatmentHeaderOf(n_diag[k]) \notin LinesOf(n_out)
          /\ \A j \in TreatmentPositions(n_out) :
                \E k \in 1..Len(n_diag) :
                    ~n_diag[k].isHealthy /\ n_out[j] = TreatmentHeaderOf(n_diag[k])
          /\ Cardinality(TreatmentPositions(n_out)) =
                Cardinality({k \in 1..Len(n_diag) : ~n_diag[k].isHealthy})
          /\ ~SomeDiseased =>
                AdvisoryPositions(n_out) \cup DisclaimerPositions(n_out) = {}

\* two healthy images, the first being "Tomato___healthy" at 0.95
C20_Witness ==
    /\ Built
    /\ Len(n_diag) = 2
    /\ TomatoHealthyOnTop(1)
    /\ n_diag[1].severity = "healthy"
    /\ n_diag[2].isHealthy
    /\ n_diag[2].topPrediction # n_diag[1].topPrediction
    /\ HealthyBanner \in PartsOf(<<SectionOf(n_out, 1)[1]>>)
    /\ AdvisoryPositions(n_out) = {}

CopperBactericideInstruction ==
    "Apply copper-based bactericide (copper hydroxide or copper oxychloride)."

S_BacterialSpot == S_Bacterial \o S_sp \o S_spot

\* the classifier answered image i with "Tomato___Bacterial_spot" at 0.82 on top
BacterialSpotOnTop(i) ==
    /\ n_in.answers[i].status = 200
    /\ Len(n_in.answers[i].body) > 0
    /\ TopOf(n_in.answers[i].body) = Result(S_TomatoBactSpot, 820)

\* the lines at j.. are a treatment block with exactly the given advice
IsBlockWith(lines, j, advice) ==
    /\ j + Len(advice) + 1 <= Len(lines)
    /\ IsTreatmentHeader(lines[j])
    /\ \A k \in 1..Len(advice) : lines[j + k] = <<Lit("* "), Lit(advice[k])>>
    /\ lines[j + Len(advice) + 1] = EmptyLine

\* C21: a classification whose top label is "Tomato___Bacterial_spot" at
\* 0.82 has plant "Tomato", condition "Bacterial spot" and severity severe;
\* its section of the narrative shows "Bacterial spot" and "82.0%", and its
\* treatment block is the list of the bacterial rule, which starts with the
\* copper-based bactericide line, not the blight, leaf-spot or generic list.
C21_BacterialSpotEndToEnd ==
    /\ n_pc \in {"classified", "built"} =>
          \A i \in 1..Len(n_diag) :
              BacterialSpotOnTop(i) =>
                  /\ n_diag[i].plantName = Some(S_Tomato)
                  /\ n_diag[i].diseaseName = Some(S_BacterialSpot)
                  /\ n_diag[i].severity = "severe"
    /\ Built =>
          \A i \in 1..Len(n_diag) :
              BacterialSpotOnTop(i) =>
                  LET sec == SectionOf(n_out, i) IN
                  /\ Str(S_BacterialSpot) \in PartsOf(sec)
                  /\ <<"pct", 82, 0>> \in PartsOf(sec)
                  /\ \E j \in TreatmentPositions(n_out) :
                        /\ n_out[j] = <<Lit("**For "), Str(S_BacterialSpot), Lit(" on "),
                                        Str(S_Tomato), Lit(":**")>>
                        /\ IsBlockWith(n_out, j, Advice_bacterial)
                        /\ n_out[j + 1] = <<Lit("* "), Lit(CopperBactericideInstruction)>>
                        /\ Lit(CopperBlightInstruction) \notin PartsOf(<<n_out[j + 2]>>)
                        /\ ~IsBlockWith(n_out, j, Advice_blight)
                        /\ ~IsBlockWith(n_out, j, Advice_leafSpot)
                        /\ ~IsBlockWith(n_out, j, Advice_generic)

\* one image, answered with five labels of which bacterial spot at 0.82 is the top
C21_Witness ==
    /\ Built
    /\ Len(n_diag) = 1
    /\ BacterialSpotOnTop(1)
    /\ Len(n_in.answers[1].body) = 5
    /\ n_diag[1].severity = "severe"
    /\ \E j \in TreatmentPositions(n_out) : IsBlockWith(n_out, j, Advice_bacterial)

\* the images of the batch whose classification failed
FailedImages == {i \in 1..Len(n_in.answers) : ~classifyResponse(n_in.answers[i]).ok}

\* the head line of the treatment block of a diagnosis without plant and condition
UnnamedTreatmentHeader ==
    <<Lit("**For "), Str(S_null), Lit(" on "), Str(S_null), Lit(":**")>>

\* C27: the diagnosis of a failed image is not healthy and has neither
\* plant nor condition; a narrative built from a batch with a failed image
\* has the advisory section, and it has one treatment block per failed
\* image, headed "For null on null" and listing the generic fallback
\* actions, which is the advice for the empty condition.
C27_SentinelGetsGenericAdvice ==
    Built =>
        /\ \A i \in FailedImages :
              /\ ~n_diag[i].isHealthy
              /\ IsNull(n_diag[i].diseaseName)
              /\ IsNull(n_diag[i].plantName)
        /\ FailedImages # {} =>
              /\ Cardinality(AdvisoryPositions(n_out)) = 1
              /\ getTreatmentAdvice(S_empty) = Advice_generic
        /\ LET blocks == {j \in TreatmentPositions(n_out) :
                              n_out[j] = UnnamedTreatmentHeader}
           IN /\ Cardinality(blocks) = Cardinality(FailedImages)
              /\ \A j \in blocks :
                    /\ IsBlockWith(n_out, j, Advice_generic)
                    /\ \A a \in AdvisoryPositions(n_out) : a < j

\* a healthy image and a failed one: the failed one alone brings the advisory section
C27_Witness ==
    /\ Built
    /\ Len(n_diag) = 2
    /\ n_diag[1].isHealthy
    /\ FailedImages = {2}
    /\ Cardinality(AdvisoryPositions(n_out)) = 1
    /\ Cardinality(TreatmentPositions(n_out)) = 1

(***************************************************************************)
(* Responses and clean-up of transcribe (checked under SpecTranscribe).    *)
(***************************************************************************)
\* C24: on every path of a handler on which a file was uploaded,
\* cleanupFiles has been called for it by the time the handler finishes; for
\* transcribe: a finished request that came with a file has had its file
\* cleaned up.
C24_UploadedFilesAlwaysCleaned ==
    (t_pc = "done" /\ t_req.file) => t_cleaned >= 1

TranscribeErrorResponses ==
    { Response(400, "NO_AUDIO", Null),
      Response(503, "SERVICE_NOT_CONFIGURED", Null),
      Response(503, "MODEL_LOADING", Null),
      Response(422, "TRANSCRIPTION_EMPTY", Null),
      Response(502, "HF_ERROR", Null) }

IsBlank(text) == \A k \in 1..Len(text) : text[k] = " "

Replied == o_pc \in {"db", "done", "raised"}

TextOnlyChat == o_req.handler = "chat" /\ NumFiles = 0 /\ ~IsBlank(o_req.message)

\* C22: in a chat without images and with a message that is not blank, the
\* generation tier is called at most once, not at all without a token;
\* once the call is over a reply exists and is not empty: the generated
\* text if the call returned, and otherwise the answer of the local
\* responder to the message, after the loading notice or alone.
C22_TextChatAlwaysReplies ==
    TextOnlyChat =>
        /\ Len(o_calls) <= 1
        /\ IsBlank(o_req.token) => o_calls = <<>>
        /\ ~Replied => o_reply = NoReply
        /\ Replied =>
              LET local == getUrduFallbackResponse(o_req.message) IN
              /\ Len(local) > 0
              /\ IF o_calls # <<>> /\ o_calls[1].returned = TRUE
                 THEN /\ o_reply.kind = "generated"
                      /\ Len(o_reply.text) > 0
                 ELSE /\ o_calls # <<>> => o_calls[1].returned = FALSE
                      /\ o_reply.kind = "fallback"
                      /\ o_reply.parts \in {local, <<LoadingNotice>> \o local}
        /\ o_pc = "done" =>
              o_sent = <<[status |-> 200, code |-> "OK", reply |-> o_reply]>>

\* the tier threw and the message has no keyword: the responder quotes it
C22_Witness ==
    /\ TextOnlyChat
    /\ o_pc = "done"
    /\ o_req.message = <<"H", "i">>
    /\ Len(o_calls) = 1
    /\ o_calls[1].returned = FALSE
    /\ Str(<<"H", "i">>) \in {o_reply.parts[k] : k \in 1..Len(o_reply.parts)}
    /\ o_reply.parts[1] # LoadingNotice

ImageChat == o_req.handler = "chat" /\ NumFiles > 0

\* the narrative of the request, from what each classification yielded
OwnNarrative == buildDiagnosisNarrative(OwnResults, o_req.message)

\* C28: in a chat with images the generation tier is called at most once,
\* only when every classification has ended, and with the narrative of
\* their results; if the call throws, the reply is that narrative and the
\* request is answered 200 with it; if the call returns, the reply is the
\* generated text.
C28_EnrichmentFallsBackToNarrative ==
    ImageChat =>
        /\ Len(o_calls) <= 1
        /\ o_calls # <<>> =>
              /\ \A i \in 1..NumFiles : Ended(i)
              /\ o_calls[1].prompt = EnrichPrompt(OwnNarrative)
        /\ ~Replied => o_reply = NoReply
        /\ Replied =>
              IF o_calls # <<>> /\ o_calls[1].returned = TRUE
              THEN /\ o_reply.kind = "generated"
                   /\ Len(o_reply.text) > 0
              ELSE /\ o_calls # <<>> => o_calls[1].returned = FALSE
                   /\ o_reply = NarrativeReply(OwnNarrative)
        /\ o_pc = "done" =>
              o_sent = <<[status |-> 200, code |-> "OK", reply |-> o_reply]>>

\* two images, the generation tier threw, the narrative is the reply sent
C28_Witness ==
    /\ ImageChat
    /\ NumFiles = 2
    /\ o_pc = "done"
    /\ Len(o_calls) = 1
    /\ o_calls[1].returned = FALSE
    /\ o_task[1].st = "classified"
    /\ o_sent[1].reply = NarrativeReply(OwnNarrative)

(***************************************************************************)
(* The uploaded files of diagnose and chat (checked under SpecOrch).       *)
(***************************************************************************)
\* file i of the request has been handed to cleanupFiles
Released(i) == \E k \in 1..Len(o_cleaned) : i \in o_cleaned[k]

\* C23: the file of an image is released as soon as the classification of
\* that image has ended, without waiting for another image: in a step in
\* which the classification of image j ends, the file of every image whose
\* classification had ended before is already released.
C23_ReleaseDoesNotWaitForSiblings ==
    [][\A i, j \in 1..Len(o_task) :
          (i # j /\ Ended(i) /\ ~Ended(j) /\ Len(o_task') = Len(o_task)
                 /\ o_task'[j].st \in {"failed", "classified"})
             => Released(i)]_vars

\* C29: no file of a request is handed to cleanupFiles while a
\* classification of the request is in flight: the promise of every
\* classification that has ended is resolved, to the sentinel if it failed,
\* and cleanupFiles is called once, on all files, after all have ended.
C29_CleanupAfterAllSettled ==
    /\ \A i \in 1..Len(o_task) :
          Ended(i) <=> o_diag[i] = <<OwnResult(i)>>
    /\ Len(o_cleaned) <= 1
    /\ o_cleaned # <<>> =>
          /\ NumFiles > 0
          /\ o_cleaned[1] = 1..NumFiles
          /\ \A i \in 1..NumFiles : Ended(i)

\* image 2 failed before image 1 was classified; both files are cleaned up
C29_Witness ==
    /\ NumFiles = 2
    /\ o_done = <<2, 1>>
    /\ o_task[2].st = "failed"
    /\ o_task[1].st = "classified"
    /\ o_cleaned = <<{1, 2}>>

(***************************************************************************)
(* The three handlers that reach the inference provider: a request of      *)
(* diagnose or chat, or a request of transcribe.                           *)
(***************************************************************************)
InitHandlers == InitOrch \/ InitTranscribe

NextHandlers == NextOrch \/ NextTranscribe

SpecHandlers == InitHandlers /\ [][NextHandlers]_vars

\* C26: with the token unset or blank no remote call is issued: no image is
\* preprocessed or sent to the classifier, each one fails at once and yields
\* its sentinel; no generation call is made, the reply of a chat being the
\* narrative of the sentinels or the answer of the local responder; and
\* transcribe calls no speech tier and, given a file, answers 503
\* SERVICE_NOT_CONFIGURED.
C26_NoRemoteCallWithoutToken ==
    /\ (o_pc # "idle" /\ IsBlank(o_req.token)) =>
          /\ o_calls = <<>>
          /\ \A i \in 1..Len(o_task) :
                /\ o_task[i] = Task("failed", 0, <<>>)
                /\ o_diag[i] = <<Sentinel(o_req.handler, File(i))>>
          /\ (Replied /\ NumFiles > 0) =>
                o_reply = NarrativeReply(
                            buildDiagnosisNarrative(
                                [i \in 1..NumFiles |-> Sentinel(o_req.handler, File(i))],
                                o_req.message))
          /\ (Replied /\ TextOnlyChat) =>
                o_reply = FallbackReply(getUrduFallbackResponse(o_req.message))
    /\ (t_pc # "idle" /\ IsBlank(t_req.token)) =>
          /\ t_calls = <<>>
          /\ (t_pc = "done" /\ t_req.file) =>
                t_sent = <<Response(503, "SERVICE_NOT_CONFIGURED", Null)>>

\* a chat with two images and a blank token has replied
C26_Witness ==
    /\ o_req.handler = "chat"
    /\ o_req.token = <<" ">>
    /\ NumFiles = 2
    /\ o_pc = "done"
    /\ o_reply.kind = "narrative"

(***************************************************************************)
(* Ownership of sessions (checked under SpecSessions).                     *)
(***************************************************************************)
Answered403(req) == req.sent = <<sessionError(403, "FORBIDDEN")>>
Answered404(req) == req.sent = <<sessionError(404, "SESSION_NOT_FOUND")>>

\* the session stored under sid belongs to a user who is not userId
OwnedByAnother(store, sid, userId) ==
    /\ ~IsNull(store[sid])
    /\ ~IsNull(store[sid][1].userId)
    /\ store[sid][1].userId # userId

\* request r takes its last step
Ends(r) == s_reqs[r].pc \in {"findOne", "deleteOne"} /\ s_reqs'[r].pc = "done"

\* C30: getSession and deleteSession give a user access to their own
\* sessions only. A request that finds no session is answered 404 and one
\* that finds a session of another user 403, both without data and without
\* a change to the store; only a session the requester may see is returned;
\* and no step of a request deletes a session that is stored, at that
\* moment, for a user other than the requester.
C30_OnlyOwnSessions ==
    [][\A r \in 1..Len(s_reqs) :
          LET req    == s_reqs[r]
              sid    == req.sessionId
              before == s_store[sid]
          IN
          Ends(r) =>
            LET after == s_reqs'[r] IN
            /\ (req.pc = "findOne" /\ IsNull(before)) =>
                  Answered404(after) /\ s_store' = s_store
            /\ (req.pc = "findOne" /\ OwnedByAnother(s_store, sid, req.userId)) =>
                  Answered403(after) /\ s_store' = s_store
            /\ (after.sent[1].status = 200 /\ req.op = "get") =>
                  /\ after.sent[1].data = Some([sessionId |-> sid, session |-> before[1]])
                  /\ ~OwnedByAnother(s_store, sid, req.userId)
            /\ (~IsNull(before) /\ IsNull(s_store'[sid])) =>
                  ~OwnedByAnother(s_store, sid, req.userId)]_vars

====
